---- MODULE Spec2Model ----
(***************************************************************************)
(* A model of the document modification engine of src-tauri/src/swf.rs:    *)
(* the Movie (header + ordered tag list, sprites owning nested tag lists)  *)
(* and the operations that mutate it: the ID allocator, the new-element    *)
(* additions, element removal, the field-level tag patches and the         *)
(* pipeline of apply_json_modifications that sequences them.               *)
(***************************************************************************)
EXTENDS Integers, Sequences, FiniteSets, TLC

VARIABLES
    movie,   \* the Movie every operation receives as &mut Movie
    prev,    \* the Movie as it was when the last operation was called
    last,    \* the last operation: its name, its arguments and its Result
    pc,      \* position of apply_json_modifications in its sequence of steps
    trace,   \* the steps apply_json_modifications has executed, in order
    config,  \* the parts of the ModificationConfig fixed for one application
    allocs,  \* the IDs given to the tags appended so far in this application
    output,  \* the file at output_json_path: an Option of the Movie written
    dirs     \* the temporary directories that exist

vars == <<movie, prev, last, pc, trace, config, allocs, output, dirs>>

-----------------------------------------------------------------------------
(* Bounds of the model.                                                    *)

\* longest top-level tag list of an initial document
MaxTags == 2
\* deepest nesting of sprites inside sprites in an initial document
MaxDepth == 2

-----------------------------------------------------------------------------
(* Values.                                                                 *)

\* Option::None of an Option<u16> (PlaceObject.character_id, NewShape.id ...)
None == -1

\* Option<T> of a structured T: <<>> is None, <<v>> is Some(v)
Absent == <<>>
Some(v) == <<v>>

\* u16::MAX, the largest character ID
U16Max == 65535

\* the definition tag kinds find_next_available_id scans
ScannedKinds ==
    {"DefineShape", "DefineSprite", "DefineText", "DefineDynamicText",
     "DefineButton", "DefineMorphShape", "DefineBitmap"}

\* every tag kind of the engine that carries a character ID of its own
DefinitionKinds == ScannedKinds \cup {"DefineBinaryData"}

Rect(a, b, c, d) == [x_min |-> a, x_max |-> b, y_min |-> c, y_max |-> d]

Vector2D(x, y) == [x |-> x, y |-> y]

\* ShapeRecord::StyleChange; move_to is an Option<Vector2D>, the style
\* indexes are Option<usize> with 0 standing for None (indexes start at 1)
StyleChange(move_to, left_fill, right_fill, line_style) ==
    [type |-> "StyleChange", move_to |-> move_to, left_fill |-> left_fill,
     right_fill |-> right_fill, line_style |-> line_style, new_styles |-> Absent]

\* ShapeRecord::Edge; control_delta is an Option<Vector2D>
Edge(delta, control_delta) ==
    [type |-> "Edge", delta |-> delta, control_delta |-> control_delta]

SRgb8(r, g, b) == [r |-> r, g |-> g, b |-> b]
StraightSRgba8(r, g, b, a) == [r |-> r, g |-> g, b |-> b, a |-> a]

\* FillStyle::Solid and FillStyle::Bitmap; a LineStyle by its width
Solid(color) == [type |-> "Solid", color |-> color]
BitmapFill(bitmap_id) == [type |-> "Bitmap", bitmap_id |-> bitmap_id]
LineStyle(width) == [width |-> width]

Shape(fill, line, records) ==
    [initial_styles |-> [fill |-> fill, line |-> line], records |-> records]

\* tags::DefineShape with all its fields; edge_bounds is an Option<Rect>
DefineShapeTag(i, b, eb, fw, ns, ss, sh) ==
    [kind |-> "DefineShape", id |-> i, bounds |-> b, edge_bounds |-> eb,
     has_fill_winding |-> fw, has_non_scaling_strokes |-> ns,
     has_scaling_strokes |-> ss, shape |-> sh]

\* the DefineShape add_new_shapes and apply_transparency build: no edge
\* bounds, the three flags false
DefineShape(i, b, sh) == DefineShapeTag(i, b, Absent, FALSE, FALSE, FALSE, sh)
DefineSprite(i, ts) == [kind |-> "DefineSprite", id |-> i, tags |-> ts]
DefineText(i) == [kind |-> "DefineText", id |-> i, records |-> 0]
\* text is an Option<String>
DefineDynamicText(i, s) == [kind |-> "DefineDynamicText", id |-> i, text |-> s]
DefineButton(i) == [kind |-> "DefineButton", id |-> i, records |-> 0]
DefineButtonColorTransform(i) ==
    [kind |-> "DefineButtonColorTransform", button_id |-> i, transform |-> 0]
DefineBitmap(i, d) == [kind |-> "DefineBitmap", id |-> i, data |-> d]
DefineMorphShape(i) == [kind |-> "DefineMorphShape", id |-> i, shape |-> 0]
DefineBinaryData(i, d) == [kind |-> "DefineBinaryData", id |-> i, data |-> d]
\* matrix and color_transform are Options
PlaceObject(c) ==
    [kind |-> "PlaceObject", character_id |-> c, matrix |-> Absent,
     color_transform |-> Absent]
FrameLabel(n) == [kind |-> "FrameLabel", name |-> n]
DefineSceneAndFrameLabelData(ss, ls) ==
    [kind |-> "DefineSceneAndFrameLabelData", scenes |-> ss, labels |-> ls]
\* header is an Option; apply_actionscript_patches builds the tag without one
DoAbc(d) == [kind |-> "DoAbc", header |-> Absent, data |-> d]
DoAction(a) == [kind |-> "DoAction", actions |-> a]
FileAttributes(as3, metadata, network, gpu) ==
    [kind |-> "FileAttributes", use_as3 |-> as3, has_metadata |-> metadata,
     use_network |-> network, use_direct_blit |-> gpu]
RemoveObject(d) == [kind |-> "RemoveObject", depth |-> d]
SetBackgroundColor(c) == [kind |-> "SetBackgroundColor", color |-> c]
SymbolClass(symbols) == [kind |-> "SymbolClass", symbols |-> symbols]
NamedId(id, name) == [id |-> id, name |-> name]
Scene(n) == [name |-> n, offset |-> 0]

Movie(version, frame, ts) ==
    [header |-> [swf_version |-> version, frame_size |-> frame], tags |-> ts]

\* the least element of a non-empty set of positions
First(S) == CHOOSE i \in S : \A j \in S : i <= j

\* the first of the positions S a loop that breaks at its first hit looks
\* for, 0 if it finds none: `for tag in &mut movie.tags { if .. { ..; break } }`
FirstIn(S) == IF S = {} THEN 0 ELSE First(S)

\* the positions of the tags of the given kind
OfKind(tags, kind) == {i \in 1..Len(tags) : tags[i].kind = kind}

\* all sequences over S of length at most n
RECURSIVE SeqsUpTo(_, _)
SeqsUpTo(S, n) ==
    IF n = 0 THEN {<<>>}
    ELSE LET shorter == SeqsUpTo(S, n - 1)
         IN  shorter \cup {Append(s, x) : s \in {t \in shorter : Len(t) = n - 1}, x \in S}

-----------------------------------------------------------------------------
(* calculate_shape_bounds                                                  *)

I32Max == 2147483647
I32Min == -I32Max - 1
PADDING == 200

Min(a, b) == IF a < b THEN a ELSE b
Max(a, b) == IF a > b THEN a ELSE b

\* the box after one more visited point
Visit(box, x, y) ==
    [box EXCEPT !.min_x = Min(@, x), !.max_x = Max(@, x),
                !.min_y = Min(@, y), !.max_y = Max(@, y)]

\* the iteration that takes the control delta from the end of the edge
BoundsStep_ControlFromEnd(box, record) ==
    IF record.type = "StyleChange"
    THEN IF record.move_to # Absent
         THEN Visit([box EXCEPT !.current_x = record.move_to[1].x,
                                !.current_y = record.move_to[1].y],
                    record.move_to[1].x, record.move_to[1].y)
         ELSE box
    ELSE LET x == box.current_x + record.delta.x
             y == box.current_y + record.delta.y
             end == Visit([box EXCEPT !.current_x = x, !.current_y = y], x, y)
         IN  IF record.control_delta # Absent
             THEN Visit(end, x + record.control_delta[1].x, y + record.control_delta[1].y)
             ELSE end

\* one iteration of the loop over shape.records
BoundsStep(box, record) ==
    IF record.type = "StyleChange"
    THEN IF record.move_to # Absent
         THEN LET at == record.move_to[1]
              IN  Visit([box EXCEPT !.current_x = at.x, !.current_y = at.y],
                        at.x, at.y)
         ELSE box
    ELSE LET x == box.current_x + record.delta.x
             y == box.current_y + record.delta.y
             end == Visit([box EXCEPT !.current_x = x, !.current_y = y], x, y)
         IN  IF record.control_delta # Absent
             THEN Visit(end, x - record.delta.x + record.control_delta[1].x,
                             y - record.delta.y + record.control_delta[1].y)
             ELSE end

RECURSIVE BoundsLoop(_, _, _)
BoundsLoop(box, records, i) ==
    IF i > Len(records) THEN box
    ELSE BoundsLoop(BoundsStep(box, records[i]), records, i + 1)

calculate_shape_bounds(shape) ==
    LET box == BoundsLoop([min_x |-> I32Max, max_x |-> I32Min,
                           min_y |-> I32Max, max_y |-> I32Min,
                           current_x |-> 0, current_y |-> 0],
                          shape.records, 1)
    IN  IF box.min_x = I32Max THEN Rect(0, 0, 0, 0)
        ELSE Rect(box.min_x - PADDING, box.max_x + PADDING,
                  box.min_y - PADDING, box.max_y + PADDING)

-----------------------------------------------------------------------------
(* find_next_available_id and the additions                                *)

\* the outcome of an arithmetic overflow in a build with overflow checks
Panic == -2

RECURSIVE MaxIdOf(_, _, _)
\* the largest id among the tags of the list whose kind is in kinds (0 if none)
MaxIdOf(tags, kinds, i) ==
    IF i > Len(tags) THEN 0
    ELSE LET rest == MaxIdOf(tags, kinds, i + 1)
         IN  IF tags[i].kind \in kinds THEN Max(tags[i].id, rest) ELSE rest

\* max_id + 1 is a u16 addition: with overflow checks (the debug profile) it
\* panics at u16::MAX, without them (the release profile) it wraps to 0
find_next_available_id(m, profile) ==
    LET max_id == MaxIdOf(m.tags, ScannedKinds, 1)
    IN  IF max_id + 1 > U16Max
        THEN IF profile = "debug" THEN Panic ELSE (max_id + 1) % (U16Max + 1)
        ELSE max_id + 1

\* the running state of an addition loop: Result, the Movie, and the log of
\* the IDs given to the tags pushed (auto: from find_next_available_id;
\* tags: the top-level list at that moment)
Running(m) == [ok |-> TRUE, panic |-> FALSE, movie |-> m, allocs |-> <<>>]

\* id.unwrap_or_else(|| find_next_available_id(movie))
IdFor(id, m, profile) == IF id = None THEN find_next_available_id(m, profile) ELSE id

\* movie.tags.push(tag) with the ID chosen for it
Push(r, tag, auto) ==
    [r EXCEPT !.movie.tags = Append(@, tag),
              !.allocs = Append(@, [id |-> tag.id, auto |-> auto,
                                    tags |-> r.movie.tags])]

Panicked(r) == [r EXCEPT !.ok = FALSE, !.panic = TRUE]
Failed(r) == [r EXCEPT !.ok = FALSE]

\* a NewShape; parsed is what parse_shape_source makes of its source file:
\* [ok |-> FALSE] or [ok |-> TRUE, shapes |-> the Vec<Shape>]
NewShape(parsed, id, bounds) == [parsed |-> parsed, id |-> id, bounds |-> bounds]
NewSprite(id, tags) == [id |-> id, frame_count |-> 1, tags |-> tags]
NewText(id, text) == [id |-> id, text |-> text]
NewBitmap(id, data) == [id |-> id, data |-> data]
NewButton(states) == [states |-> states]

RECURSIVE AddShapesLoop(_, _, _, _)
AddShapesLoop(r, shapes, i, profile) ==
    IF i > Len(shapes) THEN r
    ELSE LET shape == shapes[i]
             shape_id == IdFor(shape.id, r.movie, profile)
         IN  IF ~shape.parsed.ok THEN Failed(r)
             ELSE IF shape.parsed.shapes = <<>> THEN Failed(r)
             ELSE IF shape_id = Panic THEN Panicked(r)
             ELSE AddShapesLoop(
                     Push(r, DefineShape(shape_id,
                                 IF shape.bounds # Absent THEN shape.bounds[1]
                                 ELSE calculate_shape_bounds(shape.parsed.shapes[1]),
                                 shape.parsed.shapes[1]),
                          shape.id = None),
                     shapes, i + 1, profile)

add_new_shapes(m, shapes, profile) == AddShapesLoop(Running(m), shapes, 1, profile)

RECURSIVE AddSpritesLoop(_, _, _, _)
AddSpritesLoop(r, sprites, i, profile) ==
    IF i > Len(sprites) THEN r
    ELSE LET sprite_id == IdFor(sprites[i].id, r.movie, profile)
         IN  IF sprite_id = Panic THEN Panicked(r)
             ELSE AddSpritesLoop(
                     Push(r, DefineSprite(sprite_id, sprites[i].tags),
                          sprites[i].id = None),
                     sprites, i + 1, profile)

add_new_sprites(m, sprites, profile) == AddSpritesLoop(Running(m), sprites, 1, profile)

RECURSIVE AddTextsLoop(_, _, _, _)
AddTextsLoop(r, texts, i, profile) ==
    IF i > Len(texts) THEN r
    ELSE LET text_id == IdFor(texts[i].id, r.movie, profile)
         IN  IF text_id = Panic THEN Panicked(r)
             ELSE AddTextsLoop(
                     Push(r, DefineDynamicText(text_id, Some(texts[i].text)),
                          texts[i].id = None),
                     texts, i + 1, profile)

add_new_texts(m, texts, profile) == AddTextsLoop(Running(m), texts, 1, profile)

RECURSIVE AddBitmapsLoop(_, _, _, _)
AddBitmapsLoop(r, bitmaps, i, profile) ==
    IF i > Len(bitmaps) THEN r
    ELSE LET bitmap_id == IdFor(bitmaps[i].id, r.movie, profile)
         IN  IF bitmap_id = Panic THEN Panicked(r)
             ELSE AddBitmapsLoop(
                     Push(r, DefineBitmap(bitmap_id, bitmaps[i].data),
                          bitmaps[i].id = None),
                     bitmaps, i + 1, profile)

\* the states of every button, in order: each is pushed as it is
RECURSIVE ButtonStates(_, _)
ButtonStates(buttons, i) ==
    IF i > Len(buttons) THEN <<>>
    ELSE buttons[i].states \o ButtonStates(buttons, i + 1)

RECURSIVE AddButtonsLoop(_, _, _)
AddButtonsLoop(r, states, i) ==
    IF i > Len(states) THEN r
    ELSE AddButtonsLoop(Push(r, states[i], FALSE), states, i + 1)

\* index of the first DefineSceneAndFrameLabelData tag, 0 if there is none
FirstSceneData(tags) ==
    LET at == {i \in DOMAIN tags : tags[i].kind = "DefineSceneAndFrameLabelData"}
    IN  IF at = {} THEN 0 ELSE CHOOSE i \in at : \A j \in at : i <= j

AddScenes(r, scenes) ==
    LET at == FirstSceneData(r.movie.tags)
    IN  IF at # 0
        THEN [r EXCEPT !.movie.tags[at].scenes = @ \o scenes]
        ELSE [r EXCEPT !.movie.tags =
                 Append(@, DefineSceneAndFrameLabelData(scenes, <<>>))]

\* elements.bitmaps, .buttons and .scenes are Option<Vec<..>>; the shapes,
\* sprites and texts of the NewElements are not read here
add_new_elements(m, elements, profile) ==
    LET r1 == IF elements.bitmaps # Absent
              THEN AddBitmapsLoop(Running(m), elements.bitmaps[1], 1, profile)
              ELSE Running(m)
        r2 == IF r1.ok /\ elements.buttons # Absent
              THEN AddButtonsLoop(r1, ButtonStates(elements.buttons[1], 1), 1)
              ELSE r1
    IN  IF r2.ok /\ elements.scenes # Absent
        THEN AddScenes(r2, elements.scenes[1])
        ELSE r2

-----------------------------------------------------------------------------
(* remove_swf_elements                                                     *)

\* the seven HashSets remove_swf_elements builds from a RemoveElements
RemoveElements(shapes, sprites, texts, buttons, bitmaps, frames, scenes) ==
    [shapes |-> shapes, sprites |-> sprites, texts |-> texts,
     buttons |-> buttons, bitmaps |-> bitmaps, frames |-> frames,
     scenes |-> scenes]

\* the closure of the first pass and of the sprite clean-up: keep the tag?
KeepReference(tag, e) ==
    CASE tag.kind = "PlaceObject" ->
           LET char_id == IF tag.character_id = None THEN 0 ELSE tag.character_id
           IN  /\ char_id \notin e.shapes
               /\ char_id \notin e.sprites
               /\ char_id \notin e.texts
               /\ char_id \notin e.buttons
               /\ char_id \notin e.bitmaps
      [] tag.kind = "FrameLabel" -> tag.name \notin e.frames
      [] OTHER -> TRUE

FilterScenes(scenes, e) == SelectSeq(scenes, LAMBDA s : s.name \notin e.scenes)

\* KeepDefinition without the DefineDynamicText arm
KeepDefinition_NoDynamicText(tag, e) ==
    CASE tag.kind = "DefineShape" -> tag.id \notin e.shapes
      [] tag.kind = "DefineSprite" -> tag.id \notin e.sprites
      [] tag.kind = "DefineText" -> tag.id \notin e.texts
      [] tag.kind = "DefineButton" -> tag.id \notin e.buttons
      [] tag.kind = "DefineBitmap" -> tag.id \notin e.bitmaps
      [] tag.kind = "DefineSceneAndFrameLabelData" ->
           IF e.scenes = {} THEN TRUE
           ELSE FilterScenes(tag.scenes, e) # <<>> \/ tag.labels # <<>>
      [] OTHER -> TRUE

\* KeepDefinition deciding on the scene list before it is filtered
KeepDefinition_UnfilteredScenes(tag, e) ==
    CASE tag.kind = "DefineShape" -> tag.id \notin e.shapes
      [] tag.kind = "DefineSprite" -> tag.id \notin e.sprites
      [] tag.kind = "DefineText" -> tag.id \notin e.texts
      [] tag.kind = "DefineDynamicText" -> tag.id \notin e.texts
      [] tag.kind = "DefineButton" -> tag.id \notin e.buttons
      [] tag.kind = "DefineBitmap" -> tag.id \notin e.bitmaps
      [] tag.kind = "DefineSceneAndFrameLabelData" ->
           IF e.scenes = {} THEN TRUE
           ELSE tag.scenes # <<>> \/ tag.labels # <<>>
      [] OTHER -> TRUE

\* the closure of the second pass: keep the tag?
KeepDefinition(tag, e) ==
    CASE tag.kind = "DefineShape" -> tag.id \notin e.shapes
      [] tag.kind = "DefineSprite" -> tag.id \notin e.sprites
      [] tag.kind = "DefineText" -> tag.id \notin e.texts
      [] tag.kind = "DefineDynamicText" -> tag.id \notin e.texts
      [] tag.kind = "DefineButton" -> tag.id \notin e.buttons
      [] tag.kind = "DefineBitmap" -> tag.id \notin e.bitmaps
      [] tag.kind = "DefineSceneAndFrameLabelData" ->
           IF e.scenes = {} THEN TRUE
           ELSE FilterScenes(tag.scenes, e) # <<>> \/ tag.labels # <<>>
      [] OTHER -> TRUE

\* UpdateSceneData leaving the scene lists as they are
UpdateSceneData_Unfiltered(tags, e) == tags

\* "Update scene data with filtered scenes"
UpdateSceneData(tags, e) ==
    IF e.scenes # {}
    THEN [i \in DOMAIN tags |->
            IF tags[i].kind = "DefineSceneAndFrameLabelData"
            THEN [tags[i] EXCEPT !.scenes = FilterScenes(@, e)]
            ELSE tags[i]]
    ELSE tags

\* "Clean up any references to removed elements in sprite tags"
CleanSprites(tags, e) ==
    [i \in DOMAIN tags |->
        IF tags[i].kind = "DefineSprite"
        THEN [tags[i] EXCEPT !.tags = SelectSeq(@, LAMBDA t : KeepReference(t, e))]
        ELSE tags[i]]

remove_swf_elements(m, e) ==
    LET first  == SelectSeq(m.tags, LAMBDA t : KeepReference(t, e))
        second == SelectSeq(first, LAMBDA t : KeepDefinition(t, e))
        third  == UpdateSceneData(second, e)
    IN  [m EXCEPT !.tags = CleanSprites(third, e)]

-----------------------------------------------------------------------------
(* apply_tag_modification                                                  *)

\* a serde_json::Value: ty names the shape of the value ("null", "bool",
\* "string", "rect", ...), and the field of that name holds its content
Json(ty, v) == [ty |-> ty] @@ (ty :> v)
Content(value) == value[value.ty]

\* a TagModification; properties maps the keys of the JSON object to values
\* (a properties value that is no object has no key)
TagModification(tag, id, properties) ==
    [tag |-> tag, id |-> id, properties |-> properties]

\* modification.properties.get(key) is Some
Has(p, key) == key \in DOMAIN p

\* serde_json::from_value::<T> is Ok exactly for a value of T's shape
Decodes(value, ty) == value.ty = ty

\* serde_json::from_value::<Option<T>>: null is None
DecodesOption(value, ty) == value.ty = ty \/ value.ty = "null"
DecodedOption(value) == IF value.ty = "null" THEN Absent ELSE Some(Content(value))

\* value.as_bool().unwrap_or(false)
AsBool(value) == IF value.ty = "bool" THEN Content(value) ELSE FALSE

Err(r) == [r EXCEPT !.ok = FALSE]

\* if let Some(x) = properties.get(key) { tag.field = from_value(x)...? }
SetField(r, p, key, field, ty) ==
    IF ~r.ok \/ ~Has(p, key) THEN r
    ELSE IF Decodes(p[key], ty) THEN [r EXCEPT !.tag[field] = Content(p[key])]
    ELSE Err(r)

SetOptionField(r, p, key, field, ty) ==
    IF ~r.ok \/ ~Has(p, key) THEN r
    ELSE IF DecodesOption(p[key], ty)
         THEN [r EXCEPT !.tag[field] = DecodedOption(p[key])]
    ELSE Err(r)

\* if let Some(x) = props.get(key) { tag.field = x.as_bool().unwrap_or(false) }
SetBool(r, p, key, field) ==
    IF Has(p, key) THEN [r EXCEPT !.tag[field] = AsBool(p[key])] ELSE r

\* the DefineShape arm with the bounds key read even beside a shape key
ModifyShape_ShapeAndBounds(r, p) ==
    LET r1 == SetField(r, p, "shape", "shape", "shape")
    IN  SetField(r1, p, "bounds", "bounds", "rect")

\* the body of the DefineShape arm
ModifyShape(r, p) ==
    IF Has(p, "shape")
    THEN IF Decodes(p.shape, "shape") THEN [r EXCEPT !.tag.shape = Content(p.shape)]
         ELSE Err(r)
    ELSE LET r1 == SetField(r, p, "bounds", "bounds", "rect")
             r2 == IF ~r1.ok \/ ~Has(p, "records") THEN r1
                   ELSE IF Decodes(p.records, "records")
                        THEN [r1 EXCEPT !.tag.shape.records = Content(p.records)]
                        ELSE Err(r1)
         IN  IF ~r2.ok THEN r2
             ELSE IF Has(p, "styles")
             THEN IF Decodes(p.styles, "styles")
                  THEN [r2 EXCEPT !.tag.shape.initial_styles = Content(p.styles)]
                  ELSE Err(r2)
             ELSE LET r3 == IF ~Has(p, "fillStyles") THEN r2
                            ELSE IF Decodes(p.fillStyles, "fillStyles")
                                 THEN [r2 EXCEPT !.tag.shape.initial_styles.fill =
                                                     Content(p.fillStyles)]
                                 ELSE Err(r2)
                  IN  IF ~r3.ok \/ ~Has(p, "lineStyles") THEN r3
                      ELSE IF Decodes(p.lineStyles, "lineStyles")
                           THEN [r3 EXCEPT !.tag.shape.initial_styles.line =
                                               Content(p.lineStyles)]
                           ELSE Err(r3)

\* the body of the SetBackgroundColor arm
ModifyBackground(r, p) ==
    IF ~Has(p, "backgroundColor") THEN r
    ELSE IF Decodes(p.backgroundColor, "rgba")
         THEN LET rgba == Content(p.backgroundColor)
              IN  [r EXCEPT !.tag.color = SRgb8(rgba.r, rgba.g, rgba.b)]
         ELSE Err(r)

\* the guard `if tag.id == modification.id` dropped
IdMatches_Any(id, mod) == TRUE

\* the guard `if tag.id == modification.id` of the definition arms
IdMatches(id, mod) == id = mod.id

\* one iteration of `for tag in &mut movie.tags { match (tag, kind) .. }`:
\* the Result of the arm and the tag as the arm leaves it
ModifyTag(tag, mod) ==
    LET p == mod.properties
        r == [ok |-> TRUE, tag |-> tag]
        on(kind, name) == tag.kind = kind /\ mod.tag = name
    IN  CASE on("DefineBinaryData", "DefineBinaryDataTag") /\ IdMatches(tag.id, mod) ->
               SetField(r, p, "data", "data", "bytes")
          [] on("DefineBitmap", "DefineBitmapTag") /\ IdMatches(tag.id, mod) ->
               SetField(r, p, "data", "data", "bytes")
          [] on("DefineButton", "DefineButtonTag") /\ IdMatches(tag.id, mod) ->
               SetField(r, p, "records", "records", "buttonRecords")
          [] on("DefineButtonColorTransform", "DefineButtonColorTransformTag")
               /\ IdMatches(tag.button_id, mod) ->
               SetField(r, p, "transform", "transform", "colorTransform")
          [] on("DefineDynamicText", "DefineDynamicTextTag") /\ IdMatches(tag.id, mod) ->
               SetOptionField(r, p, "text", "text", "string")
          [] on("DefineMorphShape", "DefineMorphShapeTag") /\ IdMatches(tag.id, mod) ->
               SetField(r, p, "shape", "shape", "morphShape")
          [] on("DefineShape", "DefineShapeTag") /\ IdMatches(tag.id, mod) ->
               ModifyShape(r, p)
          [] on("DefineSprite", "DefineSpriteTag") /\ IdMatches(tag.id, mod) ->
               SetField(r, p, "tags", "tags", "tags")
          [] on("DefineText", "DefineTextTag") /\ IdMatches(tag.id, mod) ->
               SetField(r, p, "records", "records", "textRecords")
          [] on("DoAbc", "DoAbcTag") -> SetField(r, p, "data", "data", "bytes")
          [] on("DoAction", "DoActionTag") ->
               SetField(r, p, "actions", "actions", "bytes")
          [] on("FileAttributes", "FileAttributesTag") ->
               SetBool(SetBool(SetBool(SetBool(r, p, "actionScript3", "use_as3"),
                                       p, "hasMetadata", "has_metadata"),
                               p, "useNetwork", "use_network"),
                       p, "useGPU", "use_direct_blit")
          [] on("FrameLabel", "FrameLabelTag") ->
               SetField(r, p, "name", "name", "string")
          [] on("PlaceObject", "PlaceObjectTag") ->
               SetOptionField(SetOptionField(r, p, "matrix", "matrix", "matrix"),
                              p, "colorTransform", "color_transform", "colorTransform")
          [] on("RemoveObject", "RemoveObjectTag") ->
               SetField(r, p, "depth", "depth", "u16")
          [] on("SetBackgroundColor", "SetBackgroundColorTag") -> ModifyBackground(r, p)
          [] on("SymbolClass", "SymbolClassTag") ->
               SetField(r, p, "symbols", "symbols", "symbols")
          [] on("DefineSceneAndFrameLabelData", "DefineSceneAndFrameLabelDataTag") ->
               SetField(SetField(r, p, "scenes", "scenes", "scenes"),
                        p, "labels", "labels", "labels")
          [] OTHER -> r

\* `for tag in &mut movie.tags`: every tag is visited, `?` returns at the
\* first decoding failure and leaves what was assigned before it
RECURSIVE ModifyLoop(_, _, _)
ModifyLoop(tags, mod, i) ==
    IF i > Len(tags) THEN [ok |-> TRUE, tags |-> tags]
    ELSE LET r == ModifyTag(tags[i], mod)
         IN  IF r.ok THEN ModifyLoop([tags EXCEPT ![i] = r.tag], mod, i + 1)
             ELSE [ok |-> FALSE, tags |-> [tags EXCEPT ![i] = r.tag]]

apply_tag_modification(m, mod) ==
    LET r == ModifyLoop(m.tags, mod, 1)
    IN  [ok |-> r.ok, movie |-> [m EXCEPT !.tags = r.tags]]

-----------------------------------------------------------------------------
(* apply_transparency                                                      *)

Transparent == Solid(StraightSRgba8(0, 0, 0, 0))

\* the replacement that keeps the edge bounds and the three flags of the tag
MakeTransparent_KeepsFlags(tags, shape_id) ==
    LET i == FirstIn({k \in OfKind(tags, "DefineShape") : tags[k].id = shape_id})
    IN  IF i = 0 THEN tags
        ELSE [tags EXCEPT ![i].shape =
                Shape(<<Transparent, Transparent>>, <<>>, tags[i].shape.records)]

\* the body of `for &shape_id in shape_ids`: the first DefineShape with the
\* ID is replaced by a new tag that keeps its bounds and records
MakeTransparent(tags, shape_id) ==
    LET i == FirstIn({k \in OfKind(tags, "DefineShape") : tags[k].id = shape_id})
    IN  IF i = 0 THEN tags
        ELSE [tags EXCEPT ![i] =
                DefineShape(shape_id, tags[i].bounds,
                            Shape(<<Transparent, Transparent>>, <<>>,
                                  tags[i].shape.records))]

RECURSIVE TransparencyLoop(_, _, _)
TransparencyLoop(tags, shape_ids, i) ==
    IF i > Len(shape_ids) THEN tags
    ELSE TransparencyLoop(MakeTransparent(tags, shape_ids[i]), shape_ids, i + 1)

\* apply_transparency writing the version without comparing it first
apply_transparency_SetsVersion(m, shape_ids) ==
    [Running(m) EXCEPT
        !.movie = [header |-> [m.header EXCEPT !.swf_version = 8],
                   tags |-> TransparencyLoop(m.tags, shape_ids, 1)]]

apply_transparency(m, shape_ids) ==
    LET version == IF m.header.swf_version < 8 THEN 8 ELSE m.header.swf_version
    IN  [Running(m) EXCEPT
            !.movie = [header |-> [m.header EXCEPT !.swf_version = version],
                       tags |-> TransparencyLoop(m.tags, shape_ids, 1)]]

-----------------------------------------------------------------------------
(* apply_shape_replacements                                                *)

\* a ShapeSource; parsed is what parse_shape_source makes of its source file
ShapeSource(parsed, shapes) == [parsed |-> parsed, shapes |-> shapes]

\* `change.left_fill = Some(1); change.right_fill = None` on every
\* StyleChange record
UseFirstFill(records) ==
    [i \in 1..Len(records) |->
        IF records[i].type = "StyleChange"
        THEN [records[i] EXCEPT !.left_fill = 1, !.right_fill = 0]
        ELSE records[i]]

\* the shape that replaces original: the first new shape, with the fills of
\* the original when it has none of its own
ModifiedShape(new_shape, original) ==
    IF new_shape.initial_styles.fill = <<>> /\ original.initial_styles.fill # <<>>
    THEN [initial_styles |-> [fill |-> original.initial_styles.fill,
                              line |-> new_shape.initial_styles.line],
          records |-> UseFirstFill(new_shape.records)]
    ELSE new_shape

\* replace_shape_in_movie, passing over an ID that no DefineShape has
replace_shape_in_movie_IgnoresMissing(m, shape_id, new_shapes) ==
    LET i == FirstIn({k \in OfKind(m.tags, "DefineShape") : m.tags[k].id = shape_id})
    IN  IF i = 0 THEN Running(m)
        ELSE IF new_shapes = <<>> THEN Failed(Running(m))
        ELSE LET modified_shape == ModifiedShape(new_shapes[1], m.tags[i].shape)
             IN  Running([m EXCEPT !.tags[i].shape = modified_shape,
                                   !.tags[i].bounds = calculate_shape_bounds(modified_shape)])

\* Err both when no DefineShape has the ID and when there is no new shape
replace_shape_in_movie(m, shape_id, new_shapes) ==
    LET i == FirstIn({k \in OfKind(m.tags, "DefineShape") : m.tags[k].id = shape_id})
    IN  IF i = 0 \/ new_shapes = <<>> THEN Failed(Running(m))
        ELSE LET modified_shape == ModifiedShape(new_shapes[1], m.tags[i].shape)
             IN  Running([m EXCEPT !.tags[i].shape = modified_shape,
                                   !.tags[i].bounds = calculate_shape_bounds(modified_shape)])

\* `for &shape_id in &source.shapes { replace_shape_in_movie(..)? }`
RECURSIVE ReplaceShapesLoop(_, _, _, _)
ReplaceShapesLoop(r, shape_ids, new_shapes, i) ==
    IF ~r.ok \/ i > Len(shape_ids) THEN r
    ELSE ReplaceShapesLoop(replace_shape_in_movie(r.movie, shape_ids[i], new_shapes),
                           shape_ids, new_shapes, i + 1)

\* `for source in sources`
RECURSIVE ShapeSourcesLoop(_, _, _)
ShapeSourcesLoop(r, sources, i) ==
    IF ~r.ok \/ i > Len(sources) THEN r
    ELSE IF ~sources[i].parsed.ok THEN Failed(r)
    ELSE ShapeSourcesLoop(ReplaceShapesLoop(r, sources[i].shapes,
                                            sources[i].parsed.shapes, 1),
                          sources, i + 1)

apply_shape_replacements(m, sources) == ShapeSourcesLoop(Running(m), sources, 1)

-----------------------------------------------------------------------------
(* apply_actionscript_patches                                              *)

\* an ActionScriptPatch; compiled is what reading the source file and
\* compile_with_jpexs make of it: [ok |-> FALSE] or [ok |-> TRUE, data |->
\* the bytes]. class_name is an Option of the bytes of the name,
\* symbol_bindings an Option of a list of SymbolBinding
ActionScriptPatch(compiled, insert_mode, class_name, symbol_bindings) ==
    [compiled |-> compiled, insert_mode |-> insert_mode,
     class_name |-> class_name, symbol_bindings |-> symbol_bindings]

SymbolBinding(symbol_id, class_name) ==
    [symbol_id |-> symbol_id, class_name |-> class_name]

\* abc_data.windows(class_bytes.len()).any(|window| window == class_bytes);
\* slice::windows panics on a size of 0
contains_class_name(abc_data, class_bytes) ==
    IF Len(class_bytes) = 0 THEN Panic
    ELSE \E k \in 1..(Len(abc_data) - Len(class_bytes) + 1) :
            SubSeq(abc_data, k, k + Len(class_bytes) - 1) = class_bytes

\* the DoAbc tags a Replace looks at before the one it replaces make
\* contains_class_name panic
ReplacePanics(tags, patch) ==
    /\ patch.insert_mode = "Replace"
    /\ patch.class_name = Some(<<>>)
    /\ \E i \in 1..Len(tags) : tags[i].kind = "DoAbc"

\* `match patch.insert_mode`: push the new tag, or put it in the place of
\* the first DoAbc (that contains the class name), pushing it when none does
InsertAbc(tags, patch, new_tag) ==
    IF patch.insert_mode = "Add" THEN Append(tags, new_tag)
    ELSE LET i == IF patch.class_name = Absent
                  THEN FirstIn(OfKind(tags, "DoAbc"))
                  ELSE FirstIn({k \in OfKind(tags, "DoAbc") :
                           contains_class_name(tags[k].data, patch.class_name[1])})
         IN  IF i = 0 THEN Append(tags, new_tag) ELSE [tags EXCEPT ![i] = new_tag]

\* the symbols of the SymbolClass tag after the bindings: the old ones whose
\* ID no binding names, then one NamedId per binding
NewSymbols(old, bindings) ==
    SelectSeq(old, LAMBDA n : \A k \in 1..Len(bindings) : bindings[k].symbol_id # n.id)
    \o [k \in 1..Len(bindings) |-> NamedId(bindings[k].symbol_id, bindings[k].class_name)]

\* `if let Some(bindings) = &patch.symbol_bindings`
BindSymbols(tags, patch) ==
    IF patch.symbol_bindings = Absent THEN tags
    ELSE LET i == FirstIn(OfKind(tags, "SymbolClass"))
             old == IF i = 0 THEN <<>> ELSE tags[i].symbols
             symbol_class_tag == SymbolClass(NewSymbols(old, patch.symbol_bindings[1]))
         IN  IF i = 0 THEN Append(tags, symbol_class_tag)
             ELSE [tags EXCEPT ![i] = symbol_class_tag]

\* `for patch in patches`: a source that cannot be read or compiled returns
\* the error and leaves the tags of the patches before it in the movie
RECURSIVE PatchesLoop(_, _, _)
PatchesLoop(r, patches, i) ==
    IF ~r.ok \/ i > Len(patches) THEN r
    ELSE IF ~patches[i].compiled.ok THEN Failed(r)
    ELSE IF ReplacePanics(r.movie.tags, patches[i]) THEN Panicked(r)
    ELSE PatchesLoop(
            [r EXCEPT !.movie.tags =
                BindSymbols(InsertAbc(@, patches[i], DoAbc(patches[i].compiled.data)),
                            patches[i])],
            patches, i + 1)

apply_actionscript_patches(m, patches) == PatchesLoop(Running(m), patches, 1)

-----------------------------------------------------------------------------
(* The stage bounds of apply_modifications                                 *)

Bounds(x_min, x_max, y_min, y_max) ==
    [x |-> [min |-> x_min, max |-> x_max], y |-> [min |-> y_min, max |-> y_max]]

\* `if let Some(bounds) = &config.bounds { movie.header.frame_size.. = .. }`
SetFrameSize(m, bounds) ==
    [Running(m) EXCEPT
        !.movie.header.frame_size =
            Rect(bounds.x.min, bounds.x.max, bounds.y.min, bounds.y.max)]

-----------------------------------------------------------------------------
(* Element removal on its own: remove_swf_elements called repeatedly with   *)
(* the same RemoveElements, as apply_modifications and then                *)
(* apply_json_modifications do with config.swf.remove_elements.            *)

\* calls of remove_swf_elements in one run
MaxCalls == 2

NoOp == [op |-> "none"]

\* the tag list a nested sprite owns in the initial documents
InnerTags == <<PlaceObject(7), FrameLabel("a"), PlaceObject(None)>>

\* InnerTags wrapped in d sprites, one inside the other
RECURSIVE NestedSprite(_)
NestedSprite(d) ==
    IF d = 1 THEN DefineSprite(7, InnerTags)
    ELSE DefineSprite(6 + d, <<NestedSprite(d - 1)>>)

Rect0 == Rect(0, 100, 0, 100)
Red == StraightSRgba8(255, 0, 0, 255)

Shape0 ==
    Shape(<<Solid(Red)>>, <<LineStyle(20)>>,
          <<StyleChange(Some(Vector2D(0, 0)), 1, 0, 1),
            Edge(Vector2D(100, 0), Absent),
            Edge(Vector2D(0, 100), Some(Vector2D(40, 40)))>>)

RemoveTags ==
    {DefineShape(7, Rect0, Shape0), DefineText(7), DefineDynamicText(7, Some("t")),
     DefineButton(7), DefineBitmap(7, <<1>>),
     PlaceObject(7), PlaceObject(None), FrameLabel("a"), FrameLabel("b"),
     DefineSceneAndFrameLabelData(<<Scene("s1")>>, <<>>),
     DefineSceneAndFrameLabelData(<<Scene("s1"), Scene("s2")>>, <<>>),
     DefineSceneAndFrameLabelData(<<Scene("s1")>>, <<"l1">>)}
    \cup {NestedSprite(d) : d \in 1..MaxDepth}

RemoveDocs == {Movie(6, Rect0, ts) : ts \in SeqsUpTo(RemoveTags, MaxTags)}

\* the ID set S requested for the kinds in K, nothing for the other kinds
RemoveOf(S, K, frames, scenes) ==
    RemoveElements(IF "shapes" \in K THEN S ELSE {},
                   IF "sprites" \in K THEN S ELSE {},
                   IF "texts" \in K THEN S ELSE {},
                   IF "buttons" \in K THEN S ELSE {},
                   IF "bitmaps" \in K THEN S ELSE {},
                   frames, scenes)

RemoveKinds == {"shapes", "sprites", "texts", "buttons", "bitmaps"}

RemoveDescs ==
    {RemoveOf({7}, K, f, c) :
        K \in {{}, RemoveKinds} \cup {{k} : k \in RemoveKinds},
        f \in {{}, {"a"}}, c \in {{}, {"s1"}}}
    \cup {RemoveOf({0}, {"shapes"}, f, {}) : f \in {{}, {"a"}}}

InitRemove ==
    /\ movie \in RemoveDocs
    /\ prev = movie
    /\ last = NoOp
    /\ pc = "remove"
    /\ trace = <<>>
    /\ config \in {[remove_elements |-> e] : e \in RemoveDescs}
    /\ allocs = <<>>
    /\ output = Absent
    /\ dirs = {}

RemoveSwfElements ==
    /\ pc = "remove"
    /\ Len(trace) < MaxCalls
    /\ movie' = remove_swf_elements(movie, config.remove_elements)
    /\ prev' = movie
    /\ last' = [op |-> "remove_swf_elements",
                elements |-> config.remove_elements, ok |-> TRUE]
    /\ trace' = Append(trace, "remove_swf_elements")
    /\ UNCHANGED <<pc, config, allocs, output, dirs>>

NextRemove == RemoveSwfElements

SpecRemove == InitRemove /\ [][NextRemove]_vars

-----------------------------------------------------------------------------
(* Claims about removal.                                                   *)

RemovedIds(e) == e.shapes \cup e.sprites \cup e.texts \cup e.buttons \cup e.bitmaps

\* some PlaceObject or FrameLabel of the list, or of a sprite at any depth
\* below it, refers to a removed ID or name
RECURSIVE RefersToRemoved(_, _)
RefersToRemoved(tags, e) ==
    \E i \in DOMAIN tags :
        \/ /\ tags[i].kind = "PlaceObject"
           /\ tags[i].character_id # None
           /\ tags[i].character_id \in RemovedIds(e)
        \/ /\ tags[i].kind = "FrameLabel"
           /\ tags[i].name \in e.frames
        \/ /\ tags[i].kind = "DefineSprite"
           /\ RefersToRemoved(tags[i].tags, e)

\* C1: after remove_swf_elements no PlaceObject at top level or in a sprite at
\* any nesting depth carries a removed character ID, and no FrameLabel at top
\* level or in a sprite carries a removed name.
C1_NoReferenceAnywhere ==
    last.op = "remove_swf_elements" => ~RefersToRemoved(movie.tags, last.elements)

\* C6: after remove_swf_elements the top-level list holds no DefineShape,
\* DefineSprite, DefineText / DefineDynamicText, DefineButton or DefineBitmap
\* whose ID is in the removed set of its kind.
C6_DefinitionsRemoved ==
    last.op = "remove_swf_elements" =>
        \A i \in DOMAIN movie.tags :
            LET t == movie.tags[i]
                e == last.elements
            IN  /\ t.kind = "DefineShape" => t.id \notin e.shapes
                /\ t.kind = "DefineSprite" => t.id \notin e.sprites
                /\ t.kind \in {"DefineText", "DefineDynamicText"} => t.id \notin e.texts
                /\ t.kind = "DefineButton" => t.id \notin e.buttons
                /\ t.kind = "DefineBitmap" => t.id \notin e.bitmaps

\* a removal that was asked to remove texts met a DefineDynamicText of that ID
\* next to a tag it had to keep
C6_Witness ==
    /\ last.op = "remove_swf_elements"
    /\ last.elements.texts = {7}
    /\ \E i \in DOMAIN prev.tags : prev.tags[i].kind = "DefineDynamicText"
    /\ Len(movie.tags) = 1
    /\ Len(prev.tags) = 2

\* C7: removal is idempotent: a second remove_swf_elements with the same
\* RemoveElements leaves the document exactly as the first one left it.
C7_RemovalIdempotent ==
    [][(last.op = "remove_swf_elements" /\ last'.op = "remove_swf_elements"
        /\ last'.elements = last.elements) => movie' = movie]_vars

\* the second removal has run on a document in which the first one kept a
\* sprite and a filtered scene tag
C7_Witness ==
    /\ Len(trace) = 2
    /\ last.op = "remove_swf_elements"
    /\ last.elements.scenes = {"s1"}
    /\ last.elements.shapes = {7}
    /\ \E i \in DOMAIN movie.tags : movie.tags[i].kind = "DefineSprite"
    /\ \E i \in DOMAIN movie.tags : movie.tags[i].kind = "DefineSceneAndFrameLabelData"

-----------------------------------------------------------------------------
(* The additions of one patch application with no removal in between:      *)
(* add_new_shapes, add_new_sprites, add_new_texts (apply_modifications)    *)
(* and then add_new_elements (apply_json_modifications).                   *)

ShapeOne == Shape(<<>>, <<>>, <<StyleChange(Some(Vector2D(20, 40)), 0, 0, 0)>>)

AddTags ==
    {DefineShape(1, Rect0, Shape0),
     DefineSprite(2, <<DefineShape(9, Rect0, Shape0), PlaceObject(9)>>),
     DefineText(2), DefineMorphShape(4), DefineBinaryData(3, <<0>>),
     DefineBitmap(U16Max, <<0>>), PlaceObject(1)}

\* no two definition tags of the list carry the same character ID
UniqueIds(tags) ==
    \A i, j \in DOMAIN tags :
        (i # j /\ tags[i].kind \in DefinitionKinds /\ tags[j].kind \in DefinitionKinds)
            => tags[i].id # tags[j].id

AddDocs ==
    {Movie(6, Rect0, ts) : ts \in {t \in SeqsUpTo(AddTags, MaxTags) : UniqueIds(t)}}

Parsed(shapes) == [ok |-> TRUE, shapes |-> shapes]
ParseError == [ok |-> FALSE]

\* Option<Vec<NewShape>> values of swf.new_elements.shapes
NewShapeLists ==
    {Absent,
     Some(<<NewShape(Parsed(<<ShapeOne>>), None, Absent)>>),
     Some(<<NewShape(Parsed(<<Shape0, ShapeOne>>), None, Some(Rect0)),
            NewShape(Parsed(<<ShapeOne>>), 1, Absent)>>),
     Some(<<NewShape(Parsed(<<ShapeOne>>), None, Absent), NewShape(ParseError, None, Absent)>>),
     Some(<<NewShape(Parsed(<<>>), None, Absent)>>)}

NewSpriteLists ==
    {Absent,
     Some(<<NewSprite(None, <<>>)>>),
     Some(<<NewSprite(None, InnerTags), NewSprite(None, <<>>)>>),
     Some(<<NewSprite(1, <<>>)>>)}

NewTextLists ==
    {Absent, Some(<<NewText(None, "t")>>), Some(<<NewText(3, "t")>>)}

NewElements(bitmaps, buttons, scenes) ==
    [bitmaps |-> bitmaps, buttons |-> buttons, scenes |-> scenes]

\* Option<NewElements> values of the root new_elements
NewElementsValues ==
    {Absent,
     Some(NewElements(Some(<<NewBitmap(None, <<1>>)>>), Absent, Absent)),
     Some(NewElements(Some(<<NewBitmap(None, <<1>>), NewBitmap(None, <<2>>)>>),
                      Some(<<NewButton(<<DefineButton(1), DefineButton(5)>>)>>),
                      Some(<<Scene("s1")>>))),
     Some(NewElements(Absent, Absent, Some(<<>>))),
     Some(NewElements(Absent, Some(<<NewButton(<<DefineButton(5)>>)>>), Absent))}

Profiles == {"debug", "release"}

InitAdd ==
    /\ movie \in AddDocs
    /\ prev = movie
    /\ last = NoOp
    /\ pc = "add_new_shapes"
    /\ trace = <<>>
    /\ config \in {[profile |-> p] : p \in Profiles}
    /\ allocs = <<>>
    /\ output = Absent
    /\ dirs = {}

\* the state after a call that returned r: `?` returns the error to the
\* caller, a panic ends the process, otherwise control moves on to next
AfterCall(op, r, next) ==
    /\ movie' = r.movie
    /\ prev' = movie
    /\ last' = [op |-> op, ok |-> r.ok, allocs |-> r.allocs]
    /\ allocs' = allocs \o r.allocs
    /\ trace' = Append(trace, op)
    /\ pc' = IF r.panic THEN "panicked" ELSE IF r.ok THEN next ELSE "failed"
    /\ UNCHANGED <<config, output, dirs>>

\* a step whose `if let Some(..)` finds None
Skip(next) ==
    /\ pc' = next
    /\ UNCHANGED <<movie, prev, last, trace, config, allocs, output, dirs>>

AddNewShapes ==
    /\ pc = "add_new_shapes"
    /\ \E shapes \in NewShapeLists :
         IF shapes = Absent THEN Skip("add_new_sprites")
         ELSE AfterCall("add_new_shapes",
                        add_new_shapes(movie, shapes[1], config.profile),
                        "add_new_sprites")

AddNewSprites ==
    /\ pc = "add_new_sprites"
    /\ \E sprites \in NewSpriteLists :
         IF sprites = Absent THEN Skip("add_new_texts")
         ELSE AfterCall("add_new_sprites",
                        add_new_sprites(movie, sprites[1], config.profile),
                        "add_new_texts")

AddNewTexts ==
    /\ pc = "add_new_texts"
    /\ \E texts \in NewTextLists :
         IF texts = Absent THEN Skip("add_new_elements")
         ELSE AfterCall("add_new_texts",
                        add_new_texts(movie, texts[1], config.profile),
                        "add_new_elements")

AddNewElements ==
    /\ pc = "add_new_elements"
    /\ \E elements \in NewElementsValues :
         IF elements = Absent THEN Skip("done")
         ELSE AfterCall("add_new_elements",
                        add_new_elements(movie, elements[1], config.profile),
                        "done")

NextAdd == AddNewShapes \/ AddNewSprites \/ AddNewTexts \/ AddNewElements

SpecAdd == InitAdd /\ [][NextAdd]_vars

-----------------------------------------------------------------------------
(* Claims about ID allocation and additions.                               *)

\* C2: starting from pairwise distinct top-level character IDs, no sequence of
\* additions (explicit or auto-allocated IDs) makes two top-level definition
\* tags share a character ID.
C2_IdsStayUnique == UniqueIds(movie.tags)

\* C4: the allocator returns (maximum character ID over ALL top-level
\* definition tags) + 1, every Define* kind with a character ID counted,
\* tags nested in sprites not counted; stated where that sum is a u16.
C4_AllocatorIsMaxPlusOne ==
    \A i \in DOMAIN allocs :
        LET max_all == MaxIdOf(allocs[i].tags, DefinitionKinds, 1)
        IN  (allocs[i].auto /\ max_all < U16Max) => allocs[i].id = max_all + 1

\* C5: with no removal in between, two auto-allocated IDs of one application
\* differ, and an auto-allocated ID differs from every character ID a
\* top-level definition tag carries at the moment of allocation.
C5_AutoIdsFresh ==
    \A i \in DOMAIN allocs :
        allocs[i].auto =>
            /\ \A j \in 1..(i - 1) : allocs[j].auto => allocs[j].id # allocs[i].id
            /\ \A k \in DOMAIN allocs[i].tags :
                  allocs[i].tags[k].kind \in DefinitionKinds
                      => allocs[i].tags[k].id # allocs[i].id

-----------------------------------------------------------------------------
(* The field-level tag patches: the loop of apply_modifications over       *)
(* config.modifications, on a document read from the SWF JSON, which an    *)
(* earlier application may have extended with add_new_shapes.              *)

Rect1 == Rect(-50, 50, -50, 50)

Blue == StraightSRgba8(0, 0, 255, 255)
Styles1 == [fill |-> <<Solid(Blue), BitmapFill(6)>>, line |-> <<>>]
Shape1 == Shape(<<Solid(Blue)>>, <<>>, <<StyleChange(Some(Vector2D(10, 10)), 1, 0, 0)>>)

PatchTags ==
    {DefineShape(3, Rect0, Shape0), DefineShape(4, Rect0, Shape0),
     FrameLabel("a"), FrameLabel("b"), DoAbc(<<1>>), DoAbc(<<2>>), PlaceObject(3),
     SetBackgroundColor(SRgb8(0, 0, 0))}

\* one tag of every kind apply_tag_modification has an arm for
AllKindsTags ==
    <<FileAttributes(TRUE, TRUE, TRUE, TRUE), SetBackgroundColor(SRgb8(0, 0, 0)),
      DefineBinaryData(10, <<0>>), DefineBitmap(11, <<0>>), DefineButton(12),
      DefineButtonColorTransform(12), DefineDynamicText(13, Some("t")),
      DefineMorphShape(14), DefineShape(3, Rect0, Shape0),
      DefineSprite(15, InnerTags), DefineText(16), DoAbc(<<1>>), DoAction(<<0>>),
      FrameLabel("a"), PlaceObject(3), RemoveObject(1), SymbolClass(<<NamedId(3, "A")>>),
      DefineSceneAndFrameLabelData(<<Scene("s1")>>, <<"l1">>)>>

PatchDocs ==
    {Movie(6, Rect0, ts) : ts \in {t \in SeqsUpTo(PatchTags, MaxTags) : UniqueIds(t)}}
    \cup {Movie(6, Rect0, AllKindsTags)}

\* a value no field of the document decodes from
BadJson == Json("string", "?")

Prop(key, value) == [k \in {key} |-> value]

ShapeMods ==
    {TagModification("DefineShapeTag", 3, Prop("bounds", Json("rect", Rect1))),
     TagModification("DefineShapeTag", 3, Prop("bounds", BadJson)),
     TagModification("DefineShapeTag", 9, Prop("bounds", Json("rect", Rect1))),
     TagModification("DefineShapeTag", 3,
         [shape |-> Json("shape", Shape1), bounds |-> Json("rect", Rect1),
          records |-> Json("records", <<>>)]),
     TagModification("DefineShapeTag", 3, Prop("shape", BadJson)),
     TagModification("DefineShapeTag", 4,
         [shape |-> Json("shape", Shape1), bounds |-> BadJson,
          fillStyles |-> Json("fillStyles", <<>>)]),
     TagModification("DefineShapeTag", 4,
         [records |-> Json("records", Shape1.records),
          styles |-> Json("styles", Styles1), fillStyles |-> Json("fillStyles", <<Solid(Blue)>>)]),
     TagModification("DefineShapeTag", 4,
         [fillStyles |-> Json("fillStyles", <<Solid(Blue)>>),
          lineStyles |-> Json("lineStyles", <<LineStyle(40)>>)]),
     TagModification("DefineShapeTag", 4,
         [bounds |-> Json("rect", Rect1), lineStyles |-> BadJson])}

ControlMods ==
    {TagModification("SetBackgroundColorTag", 0,
         Prop("backgroundColor", Json("rgba", StraightSRgba8(255, 0, 0, 128)))),
     TagModification("SetBackgroundColorTag", 0, Prop("backgroundColor", BadJson)),
     TagModification("DoAbcTag", 0, Prop("data", Json("bytes", <<7>>))),
     TagModification("DoActionTag", 0, Prop("actions", Json("bytes", <<7>>))),
     TagModification("FileAttributesTag", 0,
         [actionScript3 |-> BadJson, hasMetadata |-> Json("bool", FALSE),
          useNetwork |-> Json("bool", TRUE), useGPU |-> Json("bool", FALSE)]),
     TagModification("FrameLabelTag", 0, Prop("name", Json("string", "x"))),
     TagModification("PlaceObjectTag", 0,
         [matrix |-> Json("matrix", 1), colorTransform |-> BadJson]),
     TagModification("PlaceObjectTag", 0,
         [matrix |-> Json("null", 0), colorTransform |-> Json("colorTransform", 1)]),
     TagModification("RemoveObjectTag", 0, Prop("depth", Json("u16", 5))),
     TagModification("SymbolClassTag", 0, Prop("symbols", Json("symbols", <<NamedId(4, "B")>>))),
     TagModification("DefineSceneAndFrameLabelDataTag", 0,
         [scenes |-> Json("scenes", <<Scene("s2")>>), labels |-> Json("labels", <<>>)])}

DefinitionMods ==
    {TagModification("DefineBinaryDataTag", 10, Prop("data", Json("bytes", <<7>>))),
     TagModification("DefineBitmapTag", 11, Prop("data", Json("bytes", <<7>>))),
     TagModification("DefineButtonTag", 12, Prop("records", Json("buttonRecords", 7))),
     TagModification("DefineButtonColorTransformTag", 12,
         Prop("transform", Json("colorTransform", 7))),
     TagModification("DefineDynamicTextTag", 13, Prop("text", Json("null", 0))),
     TagModification("DefineMorphShapeTag", 14, Prop("shape", Json("morphShape", 7))),
     TagModification("DefineSpriteTag", 15, Prop("tags", Json("tags", <<FrameLabel("b")>>))),
     TagModification("DefineTextTag", 16, Prop("records", Json("textRecords", 7))),
     TagModification("DefineTextTag", 17, Prop("records", Json("textRecords", 7)))}

TagMods == ShapeMods \cup ControlMods \cup DefinitionMods

\* the config.modifications lists: every single entry, and every failing
\* entry followed by another one
ModLists ==
    {<<m>> : m \in TagMods}
    \cup {<<m, TagModification("FrameLabelTag", 0, Prop("name", Json("string", "x")))>> :
            m \in {n \in ShapeMods : n.id # 9}}

\* what the earlier application added: nothing, or a shape with an explicit ID
EarlierShapes == {Absent, Some(<<NewShape(Parsed(<<ShapeOne>>), 3, Absent)>>)}

InitPatch ==
    /\ movie \in PatchDocs
    /\ prev = movie
    /\ last = NoOp
    /\ pc = "earlier_application"
    /\ trace = <<>>
    /\ config \in {[profile |-> "release", modifications |-> l] : l \in ModLists}
    /\ allocs = <<>>
    /\ output = Absent
    /\ dirs = {}

\* the additions of an earlier apply_json_modifications whose output is the
\* document this application reads
EarlierApplication ==
    /\ pc = "earlier_application"
    /\ \E shapes \in EarlierShapes :
         IF shapes = Absent THEN Skip("modifications")
         ELSE AfterCall("add_new_shapes",
                        add_new_shapes(movie, shapes[1], config.profile),
                        "modifications")

\* the position of `for modification in &config.modifications`
ModIndex == Len(SelectSeq(trace, LAMBDA op : op = "apply_tag_modification")) + 1

\* apply_tag_modification(movie, modification)?
ApplyTagModification ==
    /\ pc = "modifications"
    /\ ModIndex <= Len(config.modifications)
    /\ LET mod == config.modifications[ModIndex]
           r == apply_tag_modification(movie, mod)
       IN  /\ movie' = r.movie
           /\ prev' = movie
           /\ last' = [op |-> "apply_tag_modification", modification |-> mod,
                       ok |-> r.ok]
           /\ trace' = Append(trace, "apply_tag_modification")
           /\ pc' = IF r.ok THEN "modifications" ELSE "failed"
    /\ UNCHANGED <<config, allocs, output, dirs>>

NextPatch == EarlierApplication \/ ApplyTagModification

SpecPatch == InitPatch /\ [][NextPatch]_vars

-----------------------------------------------------------------------------
(* One patch application: apply_json_modifications from the parsed Movie   *)
(* and ModificationConfig to the written file. pc names the part of the    *)
(* config the next statement looks at; trace lists the statements that     *)
(* called into the document. The parts of the config that one statement    *)
(* alone reads are drawn when it reads them; the parts read by several     *)
(* statements (swf.modifications, swf.remove_elements) are in config.      *)

\* the order with the tag patches before the stage bounds and every
\* injection before every removal
NextStep_TagPatchesFirst(step) ==
    CASE step = "transparent" -> "file"
      [] step = "file" -> "actionscript"
      [] step = "actionscript" -> "modifications"
      [] step = "modifications" -> "swf.bounds"
      [] step = "swf.bounds" -> "swf.new_elements.shapes"
      [] step = "swf.new_elements.shapes" -> "swf.new_elements.sprites"
      [] step = "swf.new_elements.sprites" -> "swf.new_elements.texts"
      [] step = "swf.new_elements.texts" -> "new_elements"
      [] step = "new_elements" -> "swf.remove_elements"
      [] step = "swf.remove_elements" -> "remove_elements"
      [] step = "remove_elements" -> "swf.remove_elements again"
      [] step = "swf.remove_elements again" -> "write"
      [] step = "write" -> "done"

\* the statement that follows each statement of apply_json_modifications,
\* with apply_modifications inlined where it is called
NextStep(step) ==
    CASE step = "transparent" -> "file"
      [] step = "file" -> "actionscript"
      [] step = "actionscript" -> "swf.bounds"
      [] step = "swf.bounds" -> "modifications"
      [] step = "modifications" -> "swf.new_elements.shapes"
      [] step = "swf.new_elements.shapes" -> "swf.new_elements.sprites"
      [] step = "swf.new_elements.sprites" -> "swf.new_elements.texts"
      [] step = "swf.new_elements.texts" -> "swf.remove_elements"
      [] step = "swf.remove_elements" -> "new_elements"
      [] step = "new_elements" -> "remove_elements"
      [] step = "remove_elements" -> "swf.remove_elements again"
      [] step = "swf.remove_elements again" -> "write"
      [] step = "write" -> "done"

PipelineTags ==
    {DefineShape(3, Rect0, Shape0), PlaceObject(3), DoAbc(<<1, 2>>), FrameLabel("a")}

\* documents of a version below the one apply_transparency asks for, and
\* short ones of a version above it
PipelineDocs ==
    {Movie(6, Rect0, ts) : ts \in SeqsUpTo(PipelineTags, MaxTags)}
    \cup {Movie(10, Rect0, ts) : ts \in SeqsUpTo(PipelineTags, 1)}

\* config.swf.modifications: none, two that decode, one that does not
PipelineMods ==
    {<<>>,
     <<TagModification("DefineShapeTag", 3, Prop("bounds", Json("rect", Rect1))),
       TagModification("FrameLabelTag", 0, Prop("name", Json("string", "x")))>>,
     <<TagModification("FrameLabelTag", 0, Prop("name", Json("u16", 5)))>>}

PipelineConfigs ==
    {[profile |-> "release", modifications |-> l, remove_elements |-> e] :
        l \in PipelineMods, e \in {Absent, Some(RemoveOf({3}, {"shapes"}, {}, {}))}}

Compiled(data) == [ok |-> TRUE, data |-> data]
CompileError == [ok |-> FALSE]

PipelinePatches ==
    {Absent,
     Some(<<ActionScriptPatch(Compiled(<<9>>), "Replace", Some(<<2>>),
                              Some(<<SymbolBinding(3, "A")>>))>>),
     Some(<<ActionScriptPatch(Compiled(<<9>>), "Add", Absent, Absent),
            ActionScriptPatch(CompileError, "Add", Absent, Absent)>>)}

InitPipeline ==
    /\ movie \in PipelineDocs
    /\ prev = movie
    /\ last = NoOp
    /\ pc = "transparent"
    /\ trace = <<>>
    /\ config \in PipelineConfigs
    /\ allocs = <<>>
    /\ output = Absent
    /\ dirs = {}

\* StepCall, going on to the next statement after an error
StepCall_Continues(op, r) ==
    /\ movie' = r.movie
    /\ prev' = movie
    /\ last' = [op |-> op, ok |-> r.ok, allocs |-> r.allocs]
    /\ allocs' = allocs \o r.allocs
    /\ trace' = Append(trace, pc)
    /\ pc' = IF r.panic THEN "panicked" ELSE NextStep(pc)
    /\ UNCHANGED <<config, output, dirs>>

\* the state after the statement at pc called op and got r
StepCall(op, r) ==
    /\ movie' = r.movie
    /\ prev' = movie
    /\ last' = [op |-> op, ok |-> r.ok, allocs |-> r.allocs]
    /\ allocs' = allocs \o r.allocs
    /\ trace' = Append(trace, pc)
    /\ pc' = IF r.panic THEN "panicked" ELSE IF r.ok THEN NextStep(pc) ELSE "failed"
    /\ UNCHANGED <<config, output, dirs>>

\* `if let Some(transparent_shapes) = &config.transparent`
Transparency ==
    /\ pc = "transparent"
    /\ \E transparent \in {Absent, Some(<<3>>)} :
         IF transparent = Absent THEN Skip(NextStep(pc))
         ELSE StepCall("apply_transparency", apply_transparency(movie, transparent[1]))

\* `if let Some(shape_sources) = &config.file`
ShapeReplacements ==
    /\ pc = "file"
    /\ \E file \in {Absent, Some(<<ShapeSource(Parsed(<<ShapeOne>>), <<3>>)>>)} :
         IF file = Absent THEN Skip(NextStep(pc))
         ELSE StepCall("apply_shape_replacements",
                       apply_shape_replacements(movie, file[1]))

\* `if let Some(actionscript_patches) = &config.actionscript`
ActionscriptPatches ==
    /\ pc = "actionscript"
    /\ \E actionscript \in PipelinePatches :
         IF actionscript = Absent THEN Skip(NextStep(pc))
         ELSE StepCall("apply_actionscript_patches",
                       apply_actionscript_patches(movie, actionscript[1]))

\* apply_modifications: `if let Some(bounds) = &config.bounds`
StageBounds ==
    /\ pc = "swf.bounds"
    /\ \E bounds \in {Absent, Some(Bounds(0, 200, 0, 300))} :
         IF bounds = Absent THEN Skip(NextStep(pc))
         ELSE StepCall("frame_size", SetFrameSize(movie, bounds[1]))

\* apply_modifications: the end of `for modification in &config.modifications`
EndModifications ==
    /\ pc = "modifications"
    /\ ModIndex > Len(config.modifications)
    /\ Skip(NextStep(pc))

\* apply_modifications: `if let Some(shapes) = &new_elements.shapes`
SwfNewShapes ==
    /\ pc = "swf.new_elements.shapes"
    /\ \E shapes \in {Absent, Some(<<NewShape(Parsed(<<ShapeOne>>), None, Absent)>>)} :
         IF shapes = Absent THEN Skip(NextStep(pc))
         ELSE StepCall("add_new_shapes", add_new_shapes(movie, shapes[1], config.profile))

\* apply_modifications: `if let Some(sprites) = &new_elements.sprites`
SwfNewSprites ==
    /\ pc = "swf.new_elements.sprites"
    /\ \E sprites \in {Absent, Some(<<NewSprite(None, <<PlaceObject(3)>>)>>)} :
         IF sprites = Absent THEN Skip(NextStep(pc))
         ELSE StepCall("add_new_sprites",
                       add_new_sprites(movie, sprites[1], config.profile))

\* apply_modifications: `if let Some(texts) = &new_elements.texts`
SwfNewTexts ==
    /\ pc = "swf.new_elements.texts"
    /\ \E texts \in {Absent, Some(<<NewText(None, "t")>>)} :
         IF texts = Absent THEN Skip(NextStep(pc))
         ELSE StepCall("add_new_texts", add_new_texts(movie, texts[1], config.profile))

\* `if let Some(remove_elements) = &config.remove_elements` of
\* apply_modifications, and of apply_json_modifications for config.swf
SwfRemoveElements ==
    /\ pc \in {"swf.remove_elements", "swf.remove_elements again"}
    /\ IF config.remove_elements = Absent THEN Skip(NextStep(pc))
       ELSE StepCall("remove_swf_elements",
                     Running(remove_swf_elements(movie, config.remove_elements[1])))

\* `if let Some(new_elements) = &config.new_elements`
RootNewElements ==
    /\ pc = "new_elements"
    /\ \E elements \in {Absent,
                        Some(NewElements(Some(<<NewBitmap(None, <<1>>)>>), Absent, Absent))} :
         IF elements = Absent THEN Skip(NextStep(pc))
         ELSE StepCall("add_new_elements",
                       add_new_elements(movie, elements[1], config.profile))

\* `if let Some(remove_elements) = &config.remove_elements` of the root
RootRemoveElements ==
    /\ pc = "remove_elements"
    /\ \E elements \in {Absent, Some(RemoveOf({}, {}, {"a"}, {}))} :
         IF elements = Absent THEN Skip(NextStep(pc))
         ELSE StepCall("remove_swf_elements",
                       Running(remove_swf_elements(movie, elements[1])))

\* serde_json::to_string_pretty(&movie) and fs::write(&output_json_path, ..)
Write ==
    /\ pc = "write"
    /\ output' = Some(movie)
    /\ trace' = Append(trace, pc)
    /\ pc' = NextStep(pc)
    /\ UNCHANGED <<movie, prev, last, config, allocs, dirs>>

Next ==
    \/ Transparency
    \/ ShapeReplacements
    \/ ActionscriptPatches
    \/ StageBounds
    \/ ApplyTagModification
    \/ EndModifications
    \/ SwfNewShapes
    \/ SwfNewSprites
    \/ SwfNewTexts
    \/ SwfRemoveElements
    \/ RootNewElements
    \/ RootRemoveElements
    \/ Write

Spec == InitPipeline /\ [][Next]_vars

-----------------------------------------------------------------------------
(* Claims about apply_tag_modification, checked under SpecPatch.           *)

\* the entry names of the arms without an ID guard
ControlTagNames ==
    {"SetBackgroundColorTag", "DoAbcTag", "DoActionTag", "FileAttributesTag",
     "FrameLabelTag", "PlaceObjectTag", "RemoveObjectTag", "SymbolClassTag",
     "DefineSceneAndFrameLabelDataTag"}

\* the entry names of the arms guarded by the entry's id
DefinitionTagNames ==
    {"DefineBinaryDataTag", "DefineBitmapTag", "DefineButtonTag",
     "DefineButtonColorTransformTag", "DefineDynamicTextTag", "DefineMorphShapeTag",
     "DefineShapeTag", "DefineSpriteTag", "DefineTextTag"}

\* the TagKind an entry name selects, as the second component of the match
TagKindOf(name) ==
    CASE name = "SetBackgroundColorTag" -> "SetBackgroundColor"
      [] name = "DoAbcTag" -> "DoAbc"
      [] name = "DoActionTag" -> "DoAction"
      [] name = "FileAttributesTag" -> "FileAttributes"
      [] name = "FrameLabelTag" -> "FrameLabel"
      [] name = "PlaceObjectTag" -> "PlaceObject"
      [] name = "RemoveObjectTag" -> "RemoveObject"
      [] name = "SymbolClassTag" -> "SymbolClass"
      [] name = "DefineSceneAndFrameLabelDataTag" -> "DefineSceneAndFrameLabelData"
      [] name = "DefineBinaryDataTag" -> "DefineBinaryData"
      [] name = "DefineBitmapTag" -> "DefineBitmap"
      [] name = "DefineButtonTag" -> "DefineButton"
      [] name = "DefineButtonColorTransformTag" -> "DefineButtonColorTransform"
      [] name = "DefineDynamicTextTag" -> "DefineDynamicText"
      [] name = "DefineMorphShapeTag" -> "DefineMorphShape"
      [] name = "DefineShapeTag" -> "DefineShape"
      [] name = "DefineSpriteTag" -> "DefineSprite"
      [] name = "DefineTextTag" -> "DefineText"

\* the character ID a definition tag is matched by
CharacterId(tag) ==
    IF tag.kind = "DefineButtonColorTransform" THEN tag.button_id ELSE tag.id

\* the positions of the top-level tags an entry selects
Matching(tags, mod) ==
    {i \in 1..Len(tags) :
        /\ tags[i].kind = TagKindOf(mod.tag)
        /\ mod.tag \in DefinitionTagNames => CharacterId(tags[i]) = mod.id}

\* the call changed no tag but the first one the entry selects
OnlyFirstChanged ==
    LET M == Matching(prev.tags, last.modification)
    IN  /\ movie.header = prev.header
        /\ Len(movie.tags) = Len(prev.tags)
        /\ \A i \in 1..Len(prev.tags) :
             (M = {} \/ i # First(M)) => movie.tags[i] = prev.tags[i]

\* C8: an entry of a control kind changes only the first top-level tag of
\* that kind; every later tag of the kind, and a document without the kind,
\* is left as it was.
C8_OnlyFirstControlTag ==
    (last.op = "apply_tag_modification" /\ last.modification.tag \in ControlTagNames)
        => OnlyFirstChanged

\* C9: an entry of a definition kind changes only the first top-level tag
\* of that kind whose character ID is the entry's id; with no such tag the
\* call is Ok and the whole document is unchanged.
C9_OnlyFirstMatchingDefinition ==
    (last.op = "apply_tag_modification" /\ last.modification.tag \in DefinitionTagNames)
        => /\ OnlyFirstChanged
           /\ Matching(prev.tags, last.modification) = {} => last.ok /\ movie = prev

\* a DefineShapeTag entry whose only key is bounds, holding a Rect
BoundsOnly(mod) ==
    /\ mod.tag = "DefineShapeTag"
    /\ DOMAIN mod.properties = {"bounds"}
    /\ Decodes(mod.properties.bounds, "rect")

\* C10: a DefineShapeTag entry with the bounds key only sets the bounds of
\* the tags it matches and nothing else: their shape records, fill and line
\* style tables and remaining fields, every other tag and the header are
\* unchanged.
C10_BoundsOnlyPatch ==
    (last.op = "apply_tag_modification" /\ BoundsOnly(last.modification)) =>
        LET mod == last.modification
            M == Matching(prev.tags, mod)
        IN  /\ last.ok
            /\ movie.header = prev.header
            /\ Len(movie.tags) = Len(prev.tags)
            /\ \A i \in 1..Len(prev.tags) :
                 IF i \in M
                 THEN /\ movie.tags[i].bounds = Content(mod.properties.bounds)
                      /\ movie.tags[i].shape.records = prev.tags[i].shape.records
                      /\ movie.tags[i].shape.initial_styles.fill
                            = prev.tags[i].shape.initial_styles.fill
                      /\ movie.tags[i].shape.initial_styles.line
                            = prev.tags[i].shape.initial_styles.line
                      /\ movie.tags[i] = [prev.tags[i] EXCEPT !.bounds = movie.tags[i].bounds]
                 ELSE movie.tags[i] = prev.tags[i]

\* a bounds-only entry has changed the bounds of DefineShape 3 in a document
\* that holds another DefineShape and a tag of another kind
C10_Witness ==
    /\ last.op = "apply_tag_modification"
    /\ BoundsOnly(last.modification)
    /\ \E i, j \in 1..Len(prev.tags) :
         /\ i \in Matching(prev.tags, last.modification)
         /\ movie.tags[i].bounds # prev.tags[i].bounds
         /\ prev.tags[j].kind = "DefineShape"
         /\ prev.tags[j].id # last.modification.id

-----------------------------------------------------------------------------
(* Claims about the order of one patch application, checked under Spec.    *)

\* the place of each executed statement in the order "transparency, shape
\* replacement, script patches, tag patches, stage bounds, new elements,
\* removal", injections and removals each taken as one step
StatedRank(step) ==
    CASE step = "transparent" -> 1
      [] step = "file" -> 2
      [] step = "actionscript" -> 3
      [] step = "apply_tag_modification" -> 4
      [] step = "swf.bounds" -> 5
      [] step \in {"swf.new_elements.shapes", "swf.new_elements.sprites",
                   "swf.new_elements.texts", "new_elements"} -> 6
      [] step \in {"swf.remove_elements", "remove_elements",
                   "swf.remove_elements again"} -> 7
      [] step = "write" -> 8

\* the place of each executed statement in the order "transparency, shape
\* replacement, script patches, stage bounds, tag patches, the swf section's
\* new shapes, sprites, texts, the swf section's removal, the root new
\* elements, the root removal, the swf section's removal again"
ExecutedRank(step) ==
    CASE step = "transparent" -> 1
      [] step = "file" -> 2
      [] step = "actionscript" -> 3
      [] step = "swf.bounds" -> 4
      [] step = "apply_tag_modification" -> 5
      [] step = "swf.new_elements.shapes" -> 6
      [] step = "swf.new_elements.sprites" -> 7
      [] step = "swf.new_elements.texts" -> 8
      [] step = "swf.remove_elements" -> 9
      [] step = "new_elements" -> 10
      [] step = "remove_elements" -> 11
      [] step = "swf.remove_elements again" -> 12
      [] step = "write" -> 13

\* C3 as stated: the steps run in the order transparency, shape replacement,
\* script patches, tag patches, stage-bounds override, new-element
\* injection, element removal; no tag patch follows the stage-bounds
\* override and no removal precedes an injection.
C3_StatedOrder ==
    \A i, j \in 1..Len(trace) :
        i < j => StatedRank(trace[i]) <= StatedRank(trace[j])

\* C3: the steps of one patch application run in the order transparency,
\* shape replacement, script patches, stage-bounds override, tag patches,
\* swf new shapes, sprites and texts, swf removal, root new elements, root
\* removal, swf removal again, each at most once except the tag patches,
\* which run one after the other; the file is written after all of them.
C3_ExecutedOrder ==
    \A i, j \in 1..Len(trace) :
        i < j =>
            \/ ExecutedRank(trace[i]) < ExecutedRank(trace[j])
            \/ trace[i] = "apply_tag_modification" /\ trace[j] = "apply_tag_modification"

\* an application that ran to its end: its tag patches found the frame size
\* already overridden, and the swf removal ran before the root injection
C3_Witness ==
    /\ pc = "done"
    /\ \E b, t, r, n \in 1..Len(trace) :
         /\ trace[b] = "swf.bounds"
         /\ trace[t] = "apply_tag_modification"
         /\ trace[r] = "swf.remove_elements"
         /\ trace[n] = "new_elements"
         /\ b < t /\ t < r /\ r < n
    /\ \E k \in 1..Len(trace) : trace[k] = "transparent"
    /\ \E k \in 1..Len(trace) : trace[k] = "actionscript"
    /\ movie.header.frame_size # Rect0
    /\ output = Some(movie)

-----------------------------------------------------------------------------
(* More claims about apply_tag_modification, checked under SpecPatch.      *)

\* a DefineShapeTag entry with a shape key that holds a Shape
WholeShape(mod) ==
    /\ mod.tag = "DefineShapeTag"
    /\ "shape" \in DOMAIN mod.properties
    /\ Decodes(mod.properties.shape, "shape")

\* C11: a DefineShapeTag entry with a whole-shape replacement makes the
\* shape of the tags it matches the replacement and reads no other key of
\* the entry: the call is Ok whatever the other keys hold, the bounds and
\* every other field of those tags stay, and no other tag changes.
C11_WholeShapeTakesPrecedence ==
    (last.op = "apply_tag_modification" /\ WholeShape(last.modification)) =>
        LET mod == last.modification
            M == Matching(prev.tags, mod)
        IN  /\ last.ok
            /\ movie.header = prev.header
            /\ Len(movie.tags) = Len(prev.tags)
            /\ \A i \in 1..Len(prev.tags) :
                 IF i \in M
                 THEN /\ movie.tags[i].shape = Content(mod.properties.shape)
                      /\ movie.tags[i].bounds = prev.tags[i].bounds
                      /\ movie.tags[i]
                           = [prev.tags[i] EXCEPT !.shape = Content(mod.properties.shape)]
                 ELSE movie.tags[i] = prev.tags[i]

\* an entry with a shape key and a bounds key holding another Rect than the
\* tag has was applied: the shape changed and the bounds did not
C11_Witness ==
    /\ last.op = "apply_tag_modification"
    /\ WholeShape(last.modification)
    /\ "bounds" \in DOMAIN last.modification.properties
    /\ Decodes(last.modification.properties.bounds, "rect")
    /\ \E i \in Matching(prev.tags, last.modification) :
         /\ Content(last.modification.properties.bounds) # prev.tags[i].bounds
         /\ movie.tags[i].shape # prev.tags[i].shape
         /\ movie.tags[i].bounds = prev.tags[i].bounds

\* the type serde_json::from_value is asked for by the arm of the entry
\* name for the value of each key
FieldType(tag, key) ==
    CASE key \in {"data", "actions"} -> "bytes"
      [] key = "records" ->
           (CASE tag = "DefineButtonTag" -> "buttonRecords"
              [] tag = "DefineTextTag" -> "textRecords"
              [] OTHER -> "records")
      [] key = "shape" -> IF tag = "DefineMorphShapeTag" THEN "morphShape" ELSE "shape"
      [] key = "transform" -> "colorTransform"
      [] key = "text" -> "string"
      [] key = "name" -> "string"
      [] key = "depth" -> "u16"
      [] key = "bounds" -> "rect"
      [] key = "backgroundColor" -> "rgba"
      [] key \in {"actionScript3", "hasMetadata", "useNetwork", "useGPU"} -> "bool"
      [] OTHER -> key

\* the keys whose target is an Option, which null decodes into
OptionKeys == {"text", "matrix", "colorTransform"}

\* the keys of the entry its arm looks up
ReadKeys(mod) ==
    LET keys == DOMAIN mod.properties
    IN  IF mod.tag # "DefineShapeTag" THEN keys
        ELSE IF "shape" \in keys THEN {"shape"}
        ELSE IF "styles" \in keys THEN keys \ {"fillStyles", "lineStyles"}
        ELSE keys

\* a key the arm looks up holds a value its field cannot be decoded from
Undecodable(mod) ==
    \E key \in ReadKeys(mod) :
        /\ ~Decodes(mod.properties[key], FieldType(mod.tag, key))
        /\ ~(key \in OptionKeys /\ mod.properties[key].ty = "null")

\* C12: an entry that matches a tag and holds, for a field it overrides, a
\* value the field cannot be decoded from makes the call fail, for every
\* tag kind and field, and the application stops there: nothing is put in
\* the place of the undecodable value.
C12_DecodeFailureIsFatal ==
    (/\ last.op = "apply_tag_modification"
     /\ Matching(prev.tags, last.modification) # {}
     /\ Undecodable(last.modification))
        => ~last.ok /\ pc = "failed"

-----------------------------------------------------------------------------
(* Claims about apply_transparency, checked under Spec.                    *)

\* C13: no step of a patch application lowers the version of the document,
\* and apply_transparency leaves it at the larger of the old version and 8.
C13_VersionOnlyRaised ==
    [][/\ movie'.header.swf_version >= movie.header.swf_version
       /\ (pc = "transparent" /\ trace' # trace)
             => movie'.header.swf_version = Max(movie.header.swf_version, 8)]_vars

\* apply_transparency has raised a version 6 to 8
C13_Witness ==
    /\ last.op = "apply_transparency"
    /\ prev.header.swf_version = 6
    /\ movie.header.swf_version = 8

-----------------------------------------------------------------------------
(* apply_transparency on its own: one call on a document read from the SWF *)
(* JSON, with the config.transparent list.                                 *)

\* a DefineShape as a parsed SWF holds it: edge bounds and flags set
FlaggedShape(i) == DefineShapeTag(i, Rect0, Some(Rect1), TRUE, TRUE, TRUE, Shape0)

TransparencyTags ==
    {FlaggedShape(3), DefineShape(3, Rect1, Shape1), DefineShape(4, Rect0, Shape0),
     DefineSprite(3, <<PlaceObject(3)>>), PlaceObject(3)}

TransparencyDocs ==
    {Movie(v, Rect0, ts) : v \in {6, 8, 10}, ts \in SeqsUpTo(TransparencyTags, MaxTags)}

\* config.transparent: IDs of shapes, of a sprite only, of nothing; repeated
TransparentLists == SeqsUpTo({3, 4, 9}, 2)

InitTransparency ==
    /\ movie \in TransparencyDocs
    /\ prev = movie
    /\ last = NoOp
    /\ pc = "transparent"
    /\ trace = <<>>
    /\ config \in {[profile |-> "release", transparent |-> l] : l \in TransparentLists}
    /\ allocs = <<>>
    /\ output = Absent
    /\ dirs = {}

\* apply_transparency(&mut movie, transparent_shapes)
ApplyTransparency ==
    /\ pc = "transparent"
    /\ LET r == apply_transparency(movie, config.transparent)
       IN  /\ movie' = r.movie
           /\ prev' = movie
           /\ last' = [op |-> "apply_transparency", ok |-> r.ok,
                       shape_ids |-> config.transparent]
           /\ trace' = Append(trace, pc)
           /\ pc' = IF r.ok THEN "file" ELSE "failed"
    /\ UNCHANGED <<config, allocs, output, dirs>>

NextTransparency == ApplyTransparency

SpecTransparency == InitTransparency /\ [][NextTransparency]_vars

\* the positions apply_transparency converts: for each listed ID the first
\* DefineShape that carries it
Targets(tags, shape_ids) ==
    {i \in OfKind(tags, "DefineShape") :
        /\ \E k \in 1..Len(shape_ids) : shape_ids[k] = tags[i].id
        /\ \A j \in OfKind(tags, "DefineShape") : tags[j].id = tags[i].id => i <= j}

\* C14 as stated: each targeted DefineShape gets two solid fills of alpha 0
\* and keeps its ID, position, records, bounds, edge bounds and its
\* fill-winding and stroke-scaling flags; an ID that matches no DefineShape
\* changes no tag and is no error.
C14_KeepsFlags ==
    last.op = "apply_transparency" =>
        /\ last.ok
        /\ Len(movie.tags) = Len(prev.tags)
        /\ \A i \in 1..Len(prev.tags) :
             IF i \in Targets(prev.tags, last.shape_ids)
             THEN /\ movie.tags[i].shape.initial_styles.fill = <<Transparent, Transparent>>
                  /\ movie.tags[i].kind = "DefineShape"
                  /\ movie.tags[i].id = prev.tags[i].id
                  /\ movie.tags[i].shape.records = prev.tags[i].shape.records
                  /\ movie.tags[i].bounds = prev.tags[i].bounds
                  /\ movie.tags[i].edge_bounds = prev.tags[i].edge_bounds
                  /\ movie.tags[i].has_fill_winding = prev.tags[i].has_fill_winding
                  /\ movie.tags[i].has_non_scaling_strokes
                        = prev.tags[i].has_non_scaling_strokes
                  /\ movie.tags[i].has_scaling_strokes = prev.tags[i].has_scaling_strokes
             ELSE movie.tags[i] = prev.tags[i]

\* C14: each targeted DefineShape (the first one with a listed ID) gets two
\* solid fills of alpha 0 and no line style, keeps its ID, position, records
\* and bounds, and loses its edge bounds and has its fill-winding and
\* stroke-scaling flags cleared; every other tag is unchanged, and an ID
\* that matches no DefineShape changes no tag and is no error.
C14_ClearsFlags ==
    last.op = "apply_transparency" =>
        /\ last.ok
        /\ Len(movie.tags) = Len(prev.tags)
        /\ \A i \in 1..Len(prev.tags) :
             IF i \in Targets(prev.tags, last.shape_ids)
             THEN movie.tags[i] =
                    DefineShapeTag(prev.tags[i].id, prev.tags[i].bounds, Absent,
                                   FALSE, FALSE, FALSE,
                                   Shape(<<Transparent, Transparent>>, <<>>,
                                         prev.tags[i].shape.records))
             ELSE movie.tags[i] = prev.tags[i]

\* a shape with edge bounds and flags was made transparent beside a second
\* DefineShape of the same ID, with an ID in the list that matches nothing
C14_Witness ==
    /\ last.op = "apply_transparency"
    /\ \E k \in 1..Len(last.shape_ids) :
         \A i \in OfKind(prev.tags, "DefineShape") : prev.tags[i].id # last.shape_ids[k]
    /\ \E i \in Targets(prev.tags, last.shape_ids) :
         /\ prev.tags[i].edge_bounds # Absent
         /\ prev.tags[i].has_fill_winding
         /\ movie.tags[i].shape.initial_styles.fill = <<Transparent, Transparent>>
         /\ \E j \in OfKind(prev.tags, "DefineShape") :
              j # i /\ prev.tags[j].id = prev.tags[i].id

-----------------------------------------------------------------------------
(* calculate_shape_bounds on its own: one call on a Shape, as              *)
(* replace_shape_in_movie and add_new_shapes make it.                      *)

\* most records of a Shape
MaxRecords == 3

BoundsRecords ==
    {StyleChange(Some(Vector2D(20, 40)), 1, 0, 0),
     StyleChange(Some(Vector2D(-30, 10)), 0, 0, 0),
     StyleChange(Absent, 1, 0, 1),
     Edge(Vector2D(100, 0), Absent),
     Edge(Vector2D(0, -50), Some(Vector2D(40, 40))),
     Edge(Vector2D(-10, 20), Some(Vector2D(-300, 500)))}

InitBounds ==
    /\ movie = Movie(6, Rect0, <<>>)
    /\ prev = movie
    /\ last = NoOp
    /\ pc = "calculate_shape_bounds"
    /\ trace = <<>>
    /\ config \in {[profile |-> "release", shape |-> Shape(<<>>, <<>>, rs)] :
                      rs \in SeqsUpTo(BoundsRecords, MaxRecords)}
    /\ allocs = <<>>
    /\ output = Absent
    /\ dirs = {}

\* calculate_shape_bounds(&shape)
CalculateShapeBounds ==
    /\ pc = "calculate_shape_bounds"
    /\ last' = [op |-> "calculate_shape_bounds", ok |-> TRUE, shape |-> config.shape,
                bounds |-> calculate_shape_bounds(config.shape)]
    /\ trace' = Append(trace, pc)
    /\ pc' = "done"
    /\ UNCHANGED <<movie, prev, config, allocs, output, dirs>>

NextBounds == CalculateShapeBounds

SpecBounds == InitBounds /\ [][NextBounds]_vars

\* the pen position after the first k records, from the origin
RECURSIVE PenAfter(_, _)
PenAfter(records, k) ==
    IF k = 0 THEN Vector2D(0, 0)
    ELSE LET before == PenAfter(records, k - 1)
             record == records[k]
         IN  IF record.type = "Edge"
             THEN Vector2D(before.x + record.delta.x, before.y + record.delta.y)
             ELSE IF record.move_to # Absent THEN record.move_to[1] ELSE before

\* the move-to targets, the end points of the edges and the control points
VisitedPoints(records) ==
    {PenAfter(records, k) : k \in {j \in 1..Len(records) :
        records[j].type = "Edge" \/ records[j].move_to # Absent}}
    \cup {Vector2D(PenAfter(records, k - 1).x + records[k].control_delta[1].x,
                   PenAfter(records, k - 1).y + records[k].control_delta[1].y) :
            k \in {j \in 1..Len(records) :
                records[j].type = "Edge" /\ records[j].control_delta # Absent}}

\* C15: calculate_shape_bounds gives (0,0,0,0) for a shape without records;
\* for a shape with visited points it gives their min/max box over move-to
\* targets, edge end points and control points (pen before the edge +
\* control delta) widened by 200 on each side, so that a lone move-to at
\* (x,y) gives (x-200, x+200, y-200, y+200).
C15_BoundsArePaddedBox ==
    last.op = "calculate_shape_bounds" =>
        LET records == last.shape.records
            points == VisitedPoints(records)
            b == last.bounds
        IN  /\ records = <<>> => b = Rect(0, 0, 0, 0)
            /\ points # {} =>
                 /\ \A q \in points :
                      /\ b.x_min + 200 <= q.x /\ q.x <= b.x_max - 200
                      /\ b.y_min + 200 <= q.y /\ q.y <= b.y_max - 200
                 /\ \E q \in points : q.x = b.x_min + 200
                 /\ \E q \in points : q.x = b.x_max - 200
                 /\ \E q \in points : q.y = b.y_min + 200
                 /\ \E q \in points : q.y = b.y_max - 200
            /\ (Len(records) = 1 /\ records[1].type = "StyleChange"
                                 /\ records[1].move_to # Absent)
                 => LET at == records[1].move_to[1]
                    IN  b = Rect(at.x - 200, at.x + 200, at.y - 200, at.y + 200)

\* the bounds of a shape that moves, draws a curve whose control point lies
\* outside the box of its end points, and moves again
C15_Witness ==
    /\ last.op = "calculate_shape_bounds"
    /\ last.shape.records =
          <<StyleChange(Some(Vector2D(20, 40)), 1, 0, 0),
            Edge(Vector2D(-10, 20), Some(Vector2D(-300, 500))),
            StyleChange(Some(Vector2D(-30, 10)), 0, 0, 0)>>
    /\ last.bounds = Rect(-480, 220, -190, 740)

-----------------------------------------------------------------------------
(* opacity_to_alpha on its own. An opacity is an f32; the model takes the  *)
(* opacities that are whole sixteenths, which f32 holds exactly, as is     *)
(* their product with 255, and writes n for n/16.                          *)

OpacityUnit == 16

\* f32::clamp(0.0, 1.0) on sixteenths
Clamp(n) == IF n < 0 THEN 0 ELSE IF n > OpacityUnit THEN OpacityUnit ELSE n

\* (opacity.clamp(0.0, 1.0) * 255.0) as u8: the cast drops the fraction
opacity_to_alpha(n) == (Clamp(n) * 255) \div OpacityUnit

\* the opacities from -1.0 to 3.0
Opacities == (-OpacityUnit)..(3 * OpacityUnit)

InitAlpha ==
    /\ movie = Movie(6, Rect0, <<>>)
    /\ prev = movie
    /\ last = NoOp
    /\ pc = "opacity_to_alpha"
    /\ trace = <<>>
    /\ config \in {[profile |-> "release", opacity |-> n] : n \in Opacities}
    /\ allocs = <<>>
    /\ output = Absent
    /\ dirs = {}

\* opacity_to_alpha(fill_opacity)
OpacityToAlpha ==
    /\ pc = "opacity_to_alpha"
    /\ last' = [op |-> "opacity_to_alpha", ok |-> TRUE, opacity |-> config.opacity,
                alpha |-> opacity_to_alpha(config.opacity)]
    /\ trace' = Append(trace, pc)
    /\ pc' = "done"
    /\ UNCHANGED <<movie, prev, config, allocs, output, dirs>>

NextAlpha == OpacityToAlpha

SpecAlpha == InitAlpha /\ [][NextAlpha]_vars

\* C19: alpha = round(clamp(opacity, 0, 1) * 255) for every opacity: 0 for
\* opacity 0 and below, 255 for opacity 1 and above, and the nearest integer
\* in between.
C19_AlphaIsRounded ==
    last.op = "opacity_to_alpha" =>
        LET n == last.opacity
            c == IF n < 0 THEN 0 ELSE IF n > 16 THEN 16 ELSE n
        IN  /\ n <= 0 => last.alpha = 0
            /\ n >= 16 => last.alpha = 255
            /\ last.alpha = (2 * 255 * c + 16) \div (2 * 16)

-----------------------------------------------------------------------------
(* parse_shape_source: the compiler from a path source to Shape values.    *)
(* An f64 coordinate is counted in parts of a twip, so that the cast       *)
(* `(v * SWF_SCALE) as i32` has a fraction to drop.  Arc segments with     *)
(* non-zero radii need trigonometry and are not among the inputs.          *)

\* twips per pixel
SWF_SCALE == 20

\* parts of a twip an f64 coordinate is counted in
TwipParts == 4

\* one pixel, in parts
Pixel == SWF_SCALE * TwipParts

Point(x, y) == [x |-> x, y |-> y]

\* `(v * SWF_SCALE as f64) as i32`: the cast drops the fraction, toward zero
Twips(v) == IF v >= 0 THEN v \div TwipParts ELSE -((-v) \div TwipParts)

point_to_vec2d(from, to) ==
    Vector2D(Twips(to.x) - Twips(from.x), Twips(to.y) - Twips(from.y))

\* svgtypes::Transform, the translation e, f in parts
Transform(a, b, c, d, e, f) == [a |-> a, b |-> b, c |-> c, d |-> d, e |-> e, f |-> f]

apply_transform(point, transform) ==
    Point(transform.a * point.x + transform.c * point.y + transform.e,
          transform.b * point.x + transform.d * point.y + transform.f)

\* the path's own transform first, the group's second
Transformed(point, path_transform, group_transform) ==
    LET own == IF path_transform = Absent THEN point
               ELSE apply_transform(point, path_transform[1])
    IN  IF group_transform = Absent THEN own
        ELSE apply_transform(own, group_transform[1])

\* svgtypes::PathSegment; the coordinates a command does not have are 0
PathSegment(cmd, abs, x1, y1, x2, y2, x, y) ==
    [cmd |-> cmd, abs |-> abs, x1 |-> x1, y1 |-> y1, x2 |-> x2, y2 |-> y2,
     x |-> x, y |-> y]
MoveTo(abs, x, y) == PathSegment("MoveTo", abs, 0, 0, 0, 0, x, y)
LineTo(abs, x, y) == PathSegment("LineTo", abs, 0, 0, 0, 0, x, y)
HorizontalLineTo(abs, x) == PathSegment("HorizontalLineTo", abs, 0, 0, 0, 0, x, 0)
VerticalLineTo(abs, y) == PathSegment("VerticalLineTo", abs, 0, 0, 0, 0, 0, y)
CurveTo(abs, x1, y1, x2, y2, x, y) == PathSegment("CurveTo", abs, x1, y1, x2, y2, x, y)
SmoothCurveTo(abs, x2, y2, x, y) == PathSegment("SmoothCurveTo", abs, 0, 0, x2, y2, x, y)
Quadratic(abs, x1, y1, x, y) == PathSegment("Quadratic", abs, x1, y1, 0, 0, x, y)
SmoothQuadratic(abs, x, y) == PathSegment("SmoothQuadratic", abs, 0, 0, 0, 0, x, y)
ClosePath == PathSegment("ClosePath", FALSE, 0, 0, 0, 0, 0, 0)
\* a segment the path parser fails on
BadSegment == PathSegment("Err", FALSE, 0, 0, 0, 0, 0, 0)

\* `if abs { Point::new(x, y) } else { Point::new(current_pos.x + x, ...) }`
Target(abs, current_pos, x, y) ==
    IF abs THEN Point(x, y) ELSE Point(current_pos.x + x, current_pos.y + y)

\* the control point a smooth segment mirrors, or the pen
Mirrored(current_pos, last_control_point) ==
    IF last_control_point = Absent THEN current_pos
    ELSE Point(2 * current_pos.x - last_control_point[1].x,
               2 * current_pos.y - last_control_point[1].y)

\* the records, the pen and the last control point while a path is compiled
PathState(records, current_pos, last_control_point) ==
    [records |-> records, current_pos |-> current_pos,
     last_control_point |-> last_control_point]

\* the two quadratic edges of a cubic with (transformed) control points c1, c2
CubicEdges(st, c1, c2, end) ==
    LET mid == Point((c1.x + c2.x) \div 2, (c1.y + c2.y) \div 2)
    IN  PathState(st.records \o
            <<Edge(point_to_vec2d(st.current_pos, mid),
                   Some(point_to_vec2d(st.current_pos, c1))),
              Edge(point_to_vec2d(mid, end), Some(point_to_vec2d(mid, c2)))>>,
            end, Some(c2))

\* one arm of `match segment`
SegmentStep(st, seg, pt, gt) ==
    LET cur == st.current_pos
        end == Transformed(Target(seg.abs, cur, seg.x, seg.y), pt, gt)
        line(to) == PathState(Append(st.records, Edge(point_to_vec2d(cur, to), Absent)),
                              to, Absent)
        quad(control) ==
            PathState(Append(st.records, Edge(point_to_vec2d(cur, end),
                                              Some(point_to_vec2d(cur, control)))),
                      end, Some(control))
    IN  CASE seg.cmd = "MoveTo" ->
               PathState(Append(st.records,
                                StyleChange(Some(Vector2D(Twips(end.x), Twips(end.y))), 0, 0, 0)),
                         end, Absent)
          [] seg.cmd = "LineTo" -> line(end)
          [] seg.cmd = "HorizontalLineTo" ->
               line(Transformed(IF seg.abs THEN Point(seg.x, cur.y)
                                ELSE Point(cur.x + seg.x, cur.y), pt, gt))
          [] seg.cmd = "VerticalLineTo" ->
               line(Transformed(IF seg.abs THEN Point(cur.x, seg.y)
                                ELSE Point(cur.x, cur.y + seg.y), pt, gt))
          [] seg.cmd = "CurveTo" ->
               CubicEdges(st,
                   Transformed(Target(seg.abs, cur, seg.x1, seg.y1), pt, gt),
                   Transformed(Target(seg.abs, cur, seg.x2, seg.y2), pt, gt), end)
          [] seg.cmd = "SmoothCurveTo" ->
               CubicEdges(st,
                   Transformed(Mirrored(cur, st.last_control_point), pt, gt),
                   Transformed(Target(seg.abs, cur, seg.x2, seg.y2), pt, gt), end)
          [] seg.cmd = "Quadratic" ->
               quad(Transformed(Target(seg.abs, cur, seg.x1, seg.y1), pt, gt))
          [] seg.cmd = "SmoothQuadratic" ->
               quad(Transformed(Mirrored(cur, st.last_control_point), pt, gt))
          [] seg.cmd = "ClosePath" ->
               IF /\ st.records # <<>>
                  /\ st.records[1].type = "StyleChange"
                  /\ st.records[1].move_to # Absent
               THEN \* the move-to, a Vector2D in twips, is read as a Point
                    LET move_to == st.records[1].move_to[1]
                        first_point == Point(move_to.x * Pixel, move_to.y * Pixel)
                    IN  PathState(Append(st.records,
                                         Edge(point_to_vec2d(cur, first_point), Absent)),
                                  first_point, Absent)
               ELSE PathState(st.records, cur, Absent)

\* `for segment in path_parser`; a segment that fails to parse ends the
\* conversion with an error
RECURSIVE SegmentsLoop(_, _, _, _, _)
SegmentsLoop(d, k, st, pt, gt) ==
    IF k > Len(d) THEN [ok |-> TRUE, records |-> st.records]
    ELSE IF d[k].cmd = "Err" THEN [ok |-> FALSE, records |-> st.records]
    ELSE SegmentsLoop(d, k + 1, SegmentStep(st, d[k], pt, gt), pt, gt)

\* a <path> element: its attributes, None where the attribute is missing
\* or does not parse; opacities in parts of OpacityUnit, the width in parts
PathElement(transform, d, fill, fill_opacity, stroke, stroke_width, stroke_opacity) ==
    [local |-> "path", transform |-> transform, d |-> d, fill |-> fill,
     fill_opacity |-> fill_opacity, stroke |-> stroke,
     stroke_width |-> stroke_width, stroke_opacity |-> stroke_opacity]

\* a <g> element with a transform attribute
GroupElement(transform) ==
    [local |-> "g", transform |-> transform, d |-> Absent, fill |-> Absent,
     fill_opacity |-> OpacityUnit, stroke |-> Absent, stroke_width |-> Pixel,
     stroke_opacity |-> OpacityUnit]

\* the end tag of a group
GroupEnd ==
    [local |-> "/g", transform |-> Absent, d |-> Absent, fill |-> Absent,
     fill_opacity |-> OpacityUnit, stroke |-> Absent, stroke_width |-> Pixel,
     stroke_opacity |-> OpacityUnit]

\* the line style of a stroked path
StrokeStyle(width, color) == [width |-> width, fill |-> Solid(color)]

\* `(stroke_width * SWF_SCALE) as u16`
StrokeWidth(w) == Max(0, Min(U16Max, Twips(w)))

\* the StyleChange record that carries the styles of a path
NewStyles(left_fill, line_style, styles) ==
    [type |-> "StyleChange", move_to |-> Absent, left_fill |-> left_fill,
     right_fill |-> 0, line_style |-> line_style, new_styles |-> Some(styles)]

\* the compiler's variables between two elements
CompilerState(ok, records, group_transform, fill_index, line_index) ==
    [ok |-> ok, records |-> records, group_transform |-> group_transform,
     current_fill_style_index |-> fill_index,
     current_line_style_index |-> line_index]

\* Token::ElementEnd of a path: the styles, then the segments
CompilePath(cs, path) ==
    IF path.d = Absent THEN cs
    ELSE
    LET fill_index == cs.current_fill_style_index + (IF path.fill # Absent THEN 1 ELSE 0)
        line_index == cs.current_line_style_index + (IF path.stroke # Absent THEN 1 ELSE 0)
        fill == IF path.fill = Absent THEN <<>>
                ELSE <<Solid(StraightSRgba8(path.fill[1].r, path.fill[1].g, path.fill[1].b,
                                            opacity_to_alpha(path.fill_opacity)))>>
        line == IF path.stroke = Absent THEN <<>>
                ELSE <<StrokeStyle(StrokeWidth(path.stroke_width),
                           StraightSRgba8(path.stroke[1].r, path.stroke[1].g, path.stroke[1].b,
                                          opacity_to_alpha(path.stroke_opacity)))>>
        styled == IF fill # <<>> \/ line # <<>>
                  THEN Append(cs.records,
                              NewStyles(IF fill # <<>> THEN fill_index ELSE 0,
                                        IF line # <<>> THEN line_index ELSE 0,
                                        [fill |-> fill, line |-> line]))
                  ELSE cs.records
        done == SegmentsLoop(path.d[1], 1, PathState(styled, Point(0, 0), Absent),
                             path.transform, cs.group_transform)
    IN  CompilerState(done.ok, done.records, cs.group_transform, fill_index, line_index)

\* `while let Some(token) = tokenizer.next()`
RECURSIVE ElementsLoop(_, _, _)
ElementsLoop(source, k, cs) ==
    IF k > Len(source) \/ ~cs.ok THEN cs
    ELSE ElementsLoop(source, k + 1,
            IF source[k].local = "path" THEN CompilePath(cs, source[k])
            ELSE IF source[k].local = "g"
            THEN [cs EXCEPT !.group_transform = source[k].transform]
            ELSE \* Token::ElementEnd outside a path: `_ => {}`
                 cs)

\* parse_shape_source: every path goes into one Shape, pushed if it has records
parse_shape_source(source) ==
    LET cs == ElementsLoop(source, 1, CompilerState(TRUE, <<>>, Absent, 0, 0))
    IN  [ok |-> cs.ok,
         shapes |-> IF ~cs.ok \/ cs.records = <<>> THEN <<>>
                    ELSE <<Shape(<<>>, <<>>, cs.records)>>]

-----------------------------------------------------------------------------
(* parse_shape_source on its own: one call on a path source, as            *)
(* apply_shape_replacements makes it for every source file.                *)

\* most segments of a path between its first move-to and its end
MaxSegments == 3

\* segments in parts of a twip: 82 is 1.025 pixels, 20.5 twips
PathSegments ==
    {LineTo(TRUE, 242, 166), LineTo(FALSE, 80, -42),
     HorizontalLineTo(FALSE, 160), HorizontalLineTo(FALSE, -160),
     VerticalLineTo(FALSE, 80),
     CurveTo(TRUE, 162, 6, 242, 6, 322, 166),
     CurveTo(FALSE, 40, -80, 120, -80, 160, 0),
     SmoothCurveTo(TRUE, 402, 326, 482, 166),
     SmoothCurveTo(FALSE, 120, 80, 160, 0)}

\* a path ends open, closed or on a segment that does not parse
PathEnds == {<<>>, <<ClosePath>>, <<BadSegment>>}

PathData ==
    {<<MoveTo(TRUE, 82, 166)>> \o segments \o tail :
        segments \in SeqsUpTo(PathSegments, MaxSegments), tail \in PathEnds}

\* no paint, fill="#FF0000", or a half-opaque blue stroke of one pixel
PathStyles ==
    {[fill |-> Absent, stroke |-> Absent, stroke_opacity |-> OpacityUnit],
     [fill |-> Some(Red), stroke |-> Absent, stroke_opacity |-> OpacityUnit],
     [fill |-> Absent, stroke |-> Some(Blue), stroke_opacity |-> OpacityUnit \div 2]}

\* translate(1, 0) and scale(2)
Translate == Transform(1, 0, 0, 1, Pixel, 0)
Scale == Transform(2, 0, 0, 2, 0, 0)

\* what surrounds the path: nothing, its own transform, a group with a
\* transform around it or ended before it, or an earlier path of the same
\* source, unpainted or filled and stroked
Settings ==
    {[before |-> <<>>, transform |-> Absent],
     [before |-> <<PathElement(Absent,
                        Some(<<MoveTo(TRUE, 0, 0), LineTo(TRUE, 80, 0)>>),
                        Some(Blue), OpacityUnit, Some(Red), Pixel, OpacityUnit)>>,
      transform |-> Absent],
     [before |-> <<>>, transform |-> Some(Translate)],
     [before |-> <<GroupElement(Some(Scale))>>, transform |-> Some(Translate)],
     [before |-> <<GroupElement(Some(Scale)), GroupEnd>>, transform |-> Absent],
     [before |-> <<PathElement(Absent,
                        Some(<<MoveTo(TRUE, 240, 240), LineTo(TRUE, 320, 320)>>),
                        Absent, OpacityUnit, Absent, Pixel, OpacityUnit)>>,
      transform |-> Absent]}

ShapeSources ==
    {Append(setting.before,
            PathElement(setting.transform, Some(d), style.fill, OpacityUnit,
                        style.stroke, Pixel, style.stroke_opacity)) :
        setting \in Settings, d \in PathData, style \in PathStyles}

InitCompile ==
    /\ movie = Movie(6, Rect0, <<>>)
    /\ prev = movie
    /\ last = NoOp
    /\ pc = "parse_shape_source"
    /\ trace = <<>>
    /\ config \in {[profile |-> "release", source |-> source] : source \in ShapeSources}
    /\ allocs = <<>>
    /\ output = Absent
    /\ dirs = {}

\* parse_shape_source(&path)
ParseShapeSource ==
    /\ pc = "parse_shape_source"
    /\ LET r == parse_shape_source(config.source)
       IN  last' = [op |-> "parse_shape_source", ok |-> r.ok,
                    source |-> config.source, shapes |-> r.shapes]
    /\ trace' = Append(trace, pc)
    /\ pc' = "done"
    /\ UNCHANGED <<movie, prev, config, allocs, output, dirs>>

NextCompile == ParseShapeSource

SpecCompile == InitCompile /\ [][NextCompile]_vars

\* the <path> elements of a source that carry path data, in order
IsPath(element) == element.local = "path" /\ element.d # Absent
Paths(source) == SelectSeq(source, IsPath)

\* the commands a path uses
Commands(path) == {path.d[1][k].cmd : k \in 1..Len(path.d[1])}

StraightCommands ==
    {"MoveTo", "LineTo", "HorizontalLineTo", "VerticalLineTo", "ClosePath"}

\* every segment of the source is a move, a line or a close
StraightOnly(source) ==
    \A i \in 1..Len(Paths(source)) : Commands(Paths(source)[i]) \subseteq StraightCommands

\* a path that ends on a close-path
Closed(path) == path.d[1][Len(path.d[1])].cmd = "ClosePath"

\* the positions of the Edge records, and of the records with a move-to
EdgesOf(records) == {k \in 1..Len(records) : records[k].type = "Edge"}
MovesOf(records) ==
    {k \in 1..Len(records) : records[k].type = "StyleChange" /\ records[k].move_to # Absent}

\* two points at most n twips apart on both axes
Within(p, q, n) ==
    /\ p.x - q.x <= n /\ q.x - p.x <= n
    /\ p.y - q.y <= n /\ q.y - p.y <= n

\* C16: a source of straight segments compiles to Edge records without a
\* control delta; the edges of a closed path lead back to the first move-to
\* within 1 twip; and the close-path adds one straight edge from the pen to
\* the first move-to of the record list when the pen is more than a pixel
\* away from it, and no record otherwise
C16_StraightPathsClose ==
    (last.op = "parse_shape_source" /\ last.ok /\ StraightOnly(last.source)) =>
        \A s \in 1..Len(last.shapes) :
            LET records == last.shapes[s].records
                paths == Paths(last.source)
                start == records[First(MovesOf(records))].move_to[1]
                lines == Cardinality({k \in 1..Len(paths[1].d[1]) :
                            paths[1].d[1][k].cmd \in
                                {"LineTo", "HorizontalLineTo", "VerticalLineTo"}})
                k == Len(records) - (Cardinality(EdgesOf(records)) - lines)
                pen == PenAfter(records, k)
            IN  /\ \A e \in EdgesOf(records) : records[e].control_delta = Absent
                /\ (Len(paths) = 1 /\ Closed(paths[1])) =>
                       /\ Within(PenAfter(records, Len(records)), start, 1)
                       /\ SubSeq(records, k + 1, Len(records)) =
                              IF Within(pen, start, SWF_SCALE) THEN <<>>
                              ELSE <<Edge(Vector2D(start.x - pen.x, start.y - pen.y), Absent)>>

\* path data of a rectangle: a move-to, three sides and a close-path
IsRectangle(d) ==
    /\ Len(d) = 5
    /\ d[1].cmd = "MoveTo"
    /\ d[2].cmd = "HorizontalLineTo" /\ ~d[2].abs /\ d[2].x # 0
    /\ d[3].cmd = "VerticalLineTo" /\ ~d[3].abs /\ d[3].y # 0
    /\ d[4].cmd = "HorizontalLineTo" /\ ~d[4].abs /\ d[4].x = -d[2].x
    /\ d[5].cmd = "ClosePath"

\* a source of one rectangle path, fill="#FF0000", opacity 1.0, no stroke
RedRectangle(source) ==
    /\ Len(source) = 1
    /\ IsPath(source[1])
    /\ source[1].transform = Absent
    /\ source[1].fill = Some(Red)
    /\ source[1].fill_opacity = OpacityUnit
    /\ source[1].stroke = Absent
    /\ IsRectangle(source[1].d[1])

\* C17: a red rectangle path compiles to one Shape: one style-defining
\* StyleChange with the one solid fill (255,0,0,255), and 4 Edge records
\* without control delta whose deltas sum to zero
C17_RedRectangle ==
    (last.op = "parse_shape_source" /\ RedRectangle(last.source)) =>
        /\ last.ok
        /\ Len(last.shapes) = 1
        /\ LET records == last.shapes[1].records
               edges == EdgesOf(records)
           IN  /\ {k \in 1..Len(records) : records[k].type = "StyleChange"
                                            /\ records[k].new_styles # Absent} = {1}
               /\ records[1].new_styles[1].fill = <<Solid(StraightSRgba8(255, 0, 0, 255))>>
               /\ records[1].new_styles[1].line = <<>>
               /\ records[1].left_fill = 1
               /\ Cardinality(edges) = 4
               /\ \A e \in edges : records[e].control_delta = Absent
               /\ PenAfter(records, Len(records))
                      = records[First(MovesOf(records))].move_to[1]

CubicCommands == {"CurveTo", "SmoothCurveTo"}

\* the pen and the last cubic control point after the first k segments of
\* path data d, in the coordinates the path data is written in
RECURSIVE UserState(_, _)
UserState(d, k) ==
    IF k = 0 THEN [pos |-> Point(0, 0), control |-> Absent]
    ELSE LET before == UserState(d, k - 1)
             seg == d[k]
             pos == before.pos
         IN  CASE seg.cmd \in CubicCommands ->
                    [pos |-> Target(seg.abs, pos, seg.x, seg.y),
                     control |-> Some(Target(seg.abs, pos, seg.x2, seg.y2))]
               [] seg.cmd = "HorizontalLineTo" ->
                    [pos |-> Point(IF seg.abs THEN seg.x ELSE pos.x + seg.x, pos.y),
                     control |-> Absent]
               [] seg.cmd = "VerticalLineTo" ->
                    [pos |-> Point(pos.x, IF seg.abs THEN seg.y ELSE pos.y + seg.y),
                     control |-> Absent]
               [] OTHER ->
                    [pos |-> Target(seg.abs, pos, seg.x, seg.y), control |-> Absent]

\* the number of records the first k segments of d give: two for a cubic
RECURSIVE RecordsOf(_, _)
RecordsOf(d, k) ==
    IF k = 0 THEN 0
    ELSE RecordsOf(d, k - 1) + (IF d[k].cmd \in CubicCommands THEN 2 ELSE 1)

\* the transform of the group that is open at the end of the source
EnclosingTransform(source) ==
    LET open == {i \in 1..Len(source) :
                    /\ source[i].local = "g"
                    /\ \A j \in (i + 1)..Len(source) : source[j].local # "/g"}
    IN  IF open = {} THEN Absent ELSE source[First(open)].transform

\* a point of the path data, where it lies in twips
Device(point, source) ==
    LET to == Transformed(point, Paths(source)[1].transform, EnclosingTransform(source))
    IN  Vector2D(Twips(to.x), Twips(to.y))

\* C18: every cubic segment, absolute or relative, plain or smooth, gives
\* two consecutive Edge records with a control delta, the first ending at
\* the midpoint of the cubic's two control points, the second at its end
C18_CubicIsTwoQuadratics ==
    (/\ last.op = "parse_shape_source" /\ last.ok
     /\ Len(Paths(last.source)) = 1
     /\ Commands(Paths(last.source)[1]) \subseteq
            (StraightCommands \cup CubicCommands) \ {"ClosePath"}) =>
        LET d == Paths(last.source)[1].d[1]
            records == last.shapes[1].records
            styles == Len(records) - RecordsOf(d, Len(d))
        IN  /\ styles \in {0, 1}
            /\ \A k \in 1..Len(d) : d[k].cmd \in CubicCommands =>
                   LET before == UserState(d, k - 1)
                       c1 == IF d[k].cmd = "CurveTo"
                             THEN Target(d[k].abs, before.pos, d[k].x1, d[k].y1)
                             ELSE Mirrored(before.pos, before.control)
                       c2 == Target(d[k].abs, before.pos, d[k].x2, d[k].y2)
                       mid == Point((c1.x + c2.x) \div 2, (c1.y + c2.y) \div 2)
                       i == styles + RecordsOf(d, k)
                   IN  /\ records[i - 1].type = "Edge"
                       /\ records[i - 1].control_delta # Absent
                       /\ records[i].type = "Edge"
                       /\ records[i].control_delta # Absent
                       /\ PenAfter(records, i - 1) = Device(mid, last.source)
                       /\ PenAfter(records, i) = Device(UserState(d, k).pos, last.source)

-----------------------------------------------------------------------------
(* apply_actionscript_patches on its own: calls with one patch each.       *)

ScriptTags ==
    {DoAbc(<<1, 2>>), DoAbc(<<2, 3>>), PlaceObject(3),
     SymbolClass(<<NamedId(4, "C"), NamedId(3, "B"), NamedId(5, "D")>>)}

\* Add patches without and with symbol bindings (one list names an ID
\* twice), Replace patches with no class name, with a class name some
\* or no payload contains and with an empty one, and one that does not compile
ScriptPatches ==
    {ActionScriptPatch(Compiled(<<9>>), "Add", Absent, bindings) :
        bindings \in {Absent, Some(<<SymbolBinding(3, "A")>>),
                      Some(<<SymbolBinding(6, "F"), SymbolBinding(4, "G")>>),
                      Some(<<SymbolBinding(3, "A"), SymbolBinding(3, "E")>>)}}
    \cup {ActionScriptPatch(Compiled(<<9>>), "Replace", class_name, bindings) :
            class_name \in {Absent, Some(<<2>>), Some(<<2, 3>>), Some(<<7>>), Some(<<>>)},
            bindings \in {Absent, Some(<<SymbolBinding(3, "A")>>)}}
    \cup {ActionScriptPatch(CompileError, "Add", Absent, Absent)}

InitScript ==
    /\ movie \in {Movie(10, Rect0, ts) : ts \in SeqsUpTo(ScriptTags, MaxTags)}
    /\ prev = movie
    /\ last = NoOp
    /\ pc = "actionscript"
    /\ trace = <<>>
    /\ config = [profile |-> "release"]
    /\ allocs = <<>>
    /\ output = Absent
    /\ dirs = {}

\* apply_actionscript_patches(movie, &[patch], ..)
ApplyActionscriptPatch ==
    /\ pc = "actionscript"
    /\ \E patch \in ScriptPatches :
         LET r == apply_actionscript_patches(movie, <<patch>>)
         IN  /\ movie' = r.movie
             /\ last' = [op |-> "apply_actionscript_patches", ok |-> r.ok, patch |-> patch]
             /\ pc' = IF r.panic THEN "panicked"
                      ELSE IF ~r.ok THEN "failed"
                      ELSE IF Len(trace) + 1 < MaxCalls THEN pc ELSE "done"
    /\ prev' = movie
    /\ trace' = Append(trace, pc)
    /\ UNCHANGED <<config, allocs, output, dirs>>

NextScript == ApplyActionscriptPatch

SpecScript == InitScript /\ [][NextScript]_vars

\* class_bytes occurs in abc_data as a run of consecutive bytes
IsByteSubstring(class_bytes, abc_data) ==
    \E k \in 0..(Len(abc_data) - Len(class_bytes)) :
        SubSeq(abc_data, k + 1, k + Len(class_bytes)) = class_bytes

\* the tags the stated insertion policy gives
StatedInsertion(tags, patch) ==
    LET new_tag == DoAbc(patch.compiled.data)
        found == IF patch.class_name = Absent THEN OfKind(tags, "DoAbc")
                 ELSE {k \in OfKind(tags, "DoAbc") :
                          IsByteSubstring(patch.class_name[1], tags[k].data)}
    IN  IF patch.insert_mode = "Add" \/ found = {} THEN Append(tags, new_tag)
        ELSE [tags EXCEPT ![First(found)] = new_tag]

\* C20: Add appends the compiled DoAbc tag and changes no tag; Replace with
\* a class name overwrites in place the first DoAbc tag whose payload
\* contains the name as a byte substring and appends when none does;
\* Replace without a class name overwrites the first DoAbc tag and appends
\* only when there is none.  Symbol bindings touch SymbolClass tags only.
C20_ScriptInsertion ==
    (last.op = "apply_actionscript_patches" /\ last.patch.compiled.ok) =>
        LET stated == StatedInsertion(prev.tags, last.patch)
        IN  IF last.patch.symbol_bindings = Absent THEN movie.tags = stated
            ELSE /\ Len(movie.tags) >= Len(stated)
                 /\ \A k \in 1..Len(stated) :
                        IF stated[k].kind = "SymbolClass"
                        THEN movie.tags[k].kind = "SymbolClass"
                        ELSE movie.tags[k] = stated[k]
                 /\ \A k \in (Len(stated) + 1)..Len(movie.tags) :
                        movie.tags[k].kind = "SymbolClass"

\* the symbols of the first SymbolClass tag, none without such a tag
SymbolsOf(tags) ==
    IF OfKind(tags, "SymbolClass") = {} THEN <<>>
    ELSE tags[First(OfKind(tags, "SymbolClass"))].symbols

\* the character IDs the bindings of a patch name
SuppliedIds(patch) ==
    {patch.symbol_bindings[1][k].symbol_id : k \in 1..Len(patch.symbol_bindings[1])}

\* the bindings of a list for other IDs than ids, in their order
OtherBindings(symbols, ids) == SelectSeq(symbols, LAMBDA n : n.id \notin ids)

\* the bindings for character ID id in all SymbolClass tags of the document
BindingsFor(tags, id) ==
    UNION {{<<t, k>> : k \in {j \in 1..Len(tags[t].symbols) : tags[t].symbols[j].id = id}} :
              t \in OfKind(tags, "SymbolClass")}

\* C21: after a patch with symbol bindings the SymbolClass tag exists, holds
\* every supplied binding, holds the earlier bindings for other IDs in their
\* order and no earlier binding for a supplied ID, and the document has at
\* most one binding for each supplied character ID
C21_BindingsMerged ==
    (/\ last.op = "apply_actionscript_patches" /\ last.ok
     /\ last.patch.symbol_bindings # Absent) =>
        LET supplied == last.patch.symbol_bindings[1]
            ids == SuppliedIds(last.patch)
            symbols == SymbolsOf(movie.tags)
            kept == OtherBindings(SymbolsOf(prev.tags), ids)
        IN  /\ OfKind(movie.tags, "SymbolClass") # {}
            /\ \A b \in 1..Len(supplied) : \E k \in 1..Len(symbols) :
                   symbols[k] = NamedId(supplied[b].symbol_id, supplied[b].class_name)
            /\ OtherBindings(symbols, ids) = kept
            /\ Len(symbols) = Len(kept) + Len(supplied)
            /\ \A id \in ids : Cardinality(BindingsFor(movie.tags, id)) <= 1

-----------------------------------------------------------------------------
(* The two new_elements sections of a configuration: config.swf's, read by *)
(* apply_modifications, and the root one, read by add_new_elements.        *)

\* a NewElements with its six Option<Vec<..>> fields
NewElementsOf(shapes, sprites, texts, bitmaps, buttons, scenes) ==
    [shapes |-> shapes, sprites |-> sprites, texts |-> texts,
     bitmaps |-> bitmaps, buttons |-> buttons, scenes |-> scenes]

\* apply_modifications: `if let Some(new_elements) = &config.new_elements`
AddSwfNewElements(m, elements, profile) ==
    LET r1 == IF elements.shapes # Absent
              THEN add_new_shapes(m, elements.shapes[1], profile)
              ELSE Running(m)
        r2 == IF r1.ok /\ elements.sprites # Absent
              THEN AddSpritesLoop(r1, elements.sprites[1], 1, profile)
              ELSE r1
    IN  IF r2.ok /\ elements.texts # Absent
        THEN AddTextsLoop(r2, elements.texts[1], 1, profile)
        ELSE r2

ElementsTags ==
    {DefineShape(1, Rect0, Shape0), PlaceObject(1),
     DefineSceneAndFrameLabelData(<<Scene("s0")>>, <<>>)}

\* Option<NewElements> values: every kind, the three kinds each of the two
\* readers reads, no kind
ElementsValues ==
    LET shapes == Some(<<NewShape(Parsed(<<ShapeOne>>), None, Absent)>>)
        sprites == Some(<<NewSprite(None, <<>>)>>)
        texts == Some(<<NewText(None, "t")>>)
        bitmaps == Some(<<NewBitmap(None, <<1>>)>>)
        buttons == Some(<<NewButton(<<DefineButton(7)>>)>>)
        scenes == Some(<<Scene("s1")>>)
    IN  {Absent,
         Some(NewElementsOf(shapes, sprites, texts, bitmaps, buttons, scenes)),
         Some(NewElementsOf(shapes, sprites, texts, Absent, Absent, Absent)),
         Some(NewElementsOf(Absent, Absent, Absent, bitmaps, buttons, scenes)),
         Some(NewElementsOf(Absent, Absent, Absent, Absent, Absent, Absent))}

InitElements ==
    /\ movie \in {Movie(10, Rect0, ts) : ts \in SeqsUpTo(ElementsTags, MaxTags)}
    /\ prev = movie
    /\ last = NoOp
    /\ pc = "swf.new_elements"
    /\ trace = <<>>
    /\ config \in {[profile |-> "release", swf |-> [new_elements |-> a], new_elements |-> b] :
                      a \in ElementsValues, b \in ElementsValues}
    /\ allocs = <<>>
    /\ output = Absent
    /\ dirs = {}

\* the state after the section `elements` was read and the call returned r
ElementsCall(elements, r, next) ==
    /\ movie' = r.movie
    /\ prev' = movie
    /\ last' = [op |-> pc, ok |-> r.ok, elements |-> elements]
    /\ allocs' = allocs \o r.allocs
    /\ trace' = Append(trace, pc)
    /\ pc' = IF r.panic THEN "panicked" ELSE IF r.ok THEN next ELSE "failed"
    /\ UNCHANGED <<config, output, dirs>>

\* apply_modifications: the new elements of config.swf
SwfNewElements ==
    /\ pc = "swf.new_elements"
    /\ IF config.swf.new_elements = Absent THEN Skip("new_elements")
       ELSE ElementsCall(config.swf.new_elements[1],
                AddSwfNewElements(movie, config.swf.new_elements[1], config.profile),
                "new_elements")

\* apply_json_modifications: the new elements of the root of the configuration
ConfigNewElements ==
    /\ pc = "new_elements"
    /\ IF config.new_elements = Absent THEN Skip("done")
       ELSE ElementsCall(config.new_elements[1],
                add_new_elements(movie, config.new_elements[1], config.profile),
                "done")

NextElements == SwfNewElements \/ ConfigNewElements

SpecElements == InitElements /\ [][NextElements]_vars

\* the number of entries an Option<Vec<..>> asks for
Requested(list) == IF list = Absent THEN 0 ELSE Len(list[1])

\* the number of tags of a kind
CountOf(tags, kind) == Cardinality(OfKind(tags, kind))

\* C22: every entry of a new_elements section, the root one or the swf one,
\* appends one definition tag of its kind (shape, sprite, dynamic text,
\* bitmap, button) to the top-level tags; requested scenes are added to the
\* existing scene/frame-label-data tag, or one such tag is created
C22_EveryElementAdded ==
    (last.op \in {"swf.new_elements", "new_elements"} /\ last.ok) =>
        LET elements == last.elements
            added == SubSeq(movie.tags, Len(prev.tags) + 1, Len(movie.tags))
            scene == FirstSceneData(prev.tags)
        IN  /\ CountOf(added, "DefineShape") = Requested(elements.shapes)
            /\ CountOf(added, "DefineSprite") = Requested(elements.sprites)
            /\ CountOf(added, "DefineDynamicText") = Requested(elements.texts)
            /\ CountOf(added, "DefineBitmap") = Requested(elements.bitmaps)
            /\ CountOf(added, "DefineButton") = Requested(elements.buttons)
            /\ \A i \in 1..Len(prev.tags) : i # scene => movie.tags[i] = prev.tags[i]
            /\ elements.scenes # Absent =>
                   IF scene # 0
                   THEN movie.tags[scene] =
                            [prev.tags[scene] EXCEPT !.scenes = @ \o elements.scenes[1]]
                   ELSE \E i \in 1..Len(added) :
                            added[i] = DefineSceneAndFrameLabelData(elements.scenes[1], <<>>)

\* the statements of the pipeline that ran, as trace names them
Ran(step) == \E k \in 1..Len(trace) : trace[k] = step

\* C23: the first step that fails ends the patch application: the error is
\* returned and nothing is written, no statement runs after it, what the
\* completed steps made of the document stays (header and tags are not
\* rolled back), and no statement runs twice (the loop over the
\* modifications runs at most once per entry)
C23_AbortOnFirstError ==
    [][/\ pc # "failed"
       /\ (trace' # trace /\ pc # "write" /\ ~last'.ok) => pc' = "failed"
       /\ pc' = "failed" =>
              /\ ~last'.ok
              /\ output' = Absent
              /\ movie'.header = movie.header
              /\ Len(movie'.tags) >= Len(movie.tags)
              /\ \A i \in 1..Len(movie.tags) : movie'.tags[i] = movie.tags[i]
       /\ trace' # trace =>
              IF pc = "modifications"
              THEN ModIndex <= Len(config.modifications)
              ELSE ~Ran(pc)]_vars

\* a modification fails to decode after the stage bounds were set
C23_Witness ==
    /\ pc = "failed"
    /\ last.op = "apply_tag_modification"
    /\ Ran("swf.bounds")
    /\ movie.header.frame_size = Rect(0, 200, 0, 300)
    /\ output = Absent

-----------------------------------------------------------------------------
(* The compiler round trip of apply_actionscript_patches, statement by     *)
(* statement: the scratch directory of apply_actionscript_patches and the  *)
(* output directory of compile_with_jpexs are tempfile::TempDir locals,    *)
(* removed when the function that owns them returns.                       *)

\* most patches of one call
MaxPatches == 3

\* the statements of apply_actionscript_patches for one patch, then those of
\* compile_with_jpexs, in the order they run
PatchSteps ==
    <<"read_to_string", "emit_swf", "write temp.swf", "write Main.as">>
CompileSteps ==
    <<"check_java_installation", "output TempDir::new", "current_exe",
      "java -importScript", "convert_swf_to_json", "read temp.json", "find DoAbc">>
RoundTripSteps == PatchSteps \o CompileSteps

InCompile(step) == \E k \in 1..Len(CompileSteps) : CompileSteps[k] = step

\* the directories a statement reads or writes in
Uses(step) ==
    CASE step \in {"write temp.swf", "write Main.as"} -> {"temp_dir"}
      [] step = "java -importScript" -> {"temp_dir", "output_dir"}
      [] step \in {"convert_swf_to_json", "read temp.json"} -> {"output_dir"}
      [] OTHER -> {}

\* the TempDir locals of a function
Owned(function) ==
    IF function = "compile_with_jpexs" THEN {"output_dir"} ELSE {"temp_dir"}

\* the directories left when a function returns and its locals are dropped,
\* with a Drop that leaves the directory
Dropped_Leaks(existing, function) == existing

\* the directories left when a function returns and its locals are dropped:
\* Drop of a TempDir removes the directory
Dropped(existing, function) == existing \ Owned(function)

\* the statement after step
StepAfter(step) ==
    IF step = "config_dir" THEN "for patch"
    ELSE LET k == CHOOSE i \in 1..Len(RoundTripSteps) : RoundTripSteps[i] = step
         IN  IF k = Len(RoundTripSteps) THEN "insert" ELSE RoundTripSteps[k + 1]

\* the patches that were inserted
Inserted == Len(SelectSeq(trace, LAMBDA step : step = "insert"))

InitRoundTrip ==
    /\ movie = Movie(10, Rect0, <<>>)
    /\ prev = movie
    /\ last = NoOp
    /\ pc = "TempDir::new"
    /\ trace = <<>>
    /\ config \in {[profile |-> "release", patches |-> n] : n \in 0..MaxPatches}
    /\ allocs = <<>>
    /\ output = Absent
    /\ dirs = {}

\* a statement ran with the result ok and control is at next
StatementRan(ok, next) ==
    /\ last' = [op |-> pc, ok |-> ok]
    /\ trace' = Append(trace, pc)
    /\ pc' = next
    /\ UNCHANGED <<prev, config, allocs, output>>

\* `let temp_dir = TempDir::new().map_err(..)?`
CreateTempDir ==
    /\ pc = "TempDir::new"
    /\ \E ok \in BOOLEAN :
         /\ dirs' = IF ok THEN dirs \cup {"temp_dir"} ELSE dirs
         /\ StatementRan(ok, IF ok THEN "config_dir" ELSE "failed")
    /\ UNCHANGED movie

\* `for patch in patches`, and `Ok(())` after the last patch
NextPatchOrReturn ==
    /\ pc = "for patch"
    /\ IF Inserted < config.patches
       THEN /\ StatementRan(TRUE, "read_to_string")
            /\ UNCHANGED dirs
       ELSE /\ StatementRan(TRUE, "done")
            /\ dirs' = Dropped(dirs, "apply_actionscript_patches")
    /\ UNCHANGED movie

\* a statement that does not create a directory: it goes on, or its error
\* is returned, through compile_with_jpexs if it is one of its statements
Statement ==
    /\ pc = "config_dir" \/ \E k \in 1..Len(RoundTripSteps) : pc = RoundTripSteps[k]
    /\ pc \notin {"output TempDir::new", "find DoAbc"}
    /\ \E ok \in BOOLEAN :
         /\ StatementRan(ok, IF ok THEN StepAfter(pc) ELSE "failed")
         /\ dirs' = IF ok THEN dirs
                    ELSE IF InCompile(pc)
                    THEN Dropped(Dropped(dirs, "compile_with_jpexs"),
                                 "apply_actionscript_patches")
                    ELSE Dropped(dirs, "apply_actionscript_patches")
    /\ UNCHANGED movie

\* `let output_dir = TempDir::new().map_err(..)?`
CreateOutputDir ==
    /\ pc = "output TempDir::new"
    /\ \E ok \in BOOLEAN :
         /\ StatementRan(ok, IF ok THEN StepAfter(pc) ELSE "failed")
         /\ dirs' = IF ok THEN dirs \cup {"output_dir"}
                    ELSE Dropped(dirs, "apply_actionscript_patches")
    /\ UNCHANGED movie

\* `for tag in movie.tags { if let Tag::DoAbc(..) { return Ok(..) } }` and
\* the Err after the loop
FindDoAbc ==
    /\ pc = "find DoAbc"
    /\ \E ok \in BOOLEAN :
         /\ StatementRan(ok, IF ok THEN "insert" ELSE "failed")
         /\ dirs' = IF ok THEN Dropped(dirs, "compile_with_jpexs")
                    ELSE Dropped(Dropped(dirs, "compile_with_jpexs"),
                                 "apply_actionscript_patches")
    /\ UNCHANGED movie

\* `match patch.insert_mode` for an Add patch
InsertCompiled ==
    /\ pc = "insert"
    /\ movie' = [movie EXCEPT !.tags =
                    InsertAbc(@, ActionScriptPatch(Compiled(<<9>>), "Add", Absent, Absent),
                              DoAbc(<<9>>))]
    /\ StatementRan(TRUE, "for patch")
    /\ UNCHANGED dirs

NextRoundTrip ==
    \/ CreateTempDir
    \/ NextPatchOrReturn
    \/ Statement
    \/ CreateOutputDir
    \/ FindDoAbc
    \/ InsertCompiled

SpecRoundTrip == InitRoundTrip /\ [][NextRoundTrip]_vars

\* C24: a statement of the round trip finds the temporary directories it
\* works in; when compile_with_jpexs has returned its output directory is
\* gone, and when apply_actionscript_patches has returned, with Ok or with
\* any error, no temporary directory is left
C24_TempDirsScoped ==
    [][/\ Uses(pc) \subseteq dirs
       /\ ~InCompile(pc') => "output_dir" \notin dirs'
       /\ pc' \in {"done", "failed"} => dirs' = {}]_vars

\* the compiler exits with an error after both directories were made
C24_Witness ==
    /\ pc = "failed"
    /\ last.op = "java -importScript"
    /\ Ran("output TempDir::new")
    /\ dirs = {}

\* the top-level scene/frame-label-data tags, in order
SceneTags(tags) ==
    SelectSeq(tags, LAMBDA tag : tag.kind = "DefineSceneAndFrameLabelData")

\* C25: when scene names are removed, each scene/frame-label-data tag loses
\* the scenes of those names, stays if a scene or a label is left in it and
\* is dropped if neither is; without scene names the tags are untouched
C25_ScenesFiltered ==
    last.op = "remove_swf_elements" =>
        LET names == last.elements.scenes
            before == SceneTags(prev.tags)
            filtered == [i \in 1..Len(before) |->
                            [before[i] EXCEPT !.scenes =
                                SelectSeq(@, LAMBDA scene : scene.name \notin names)]]
        IN  SceneTags(movie.tags) =
                IF names = {} THEN before
                ELSE SelectSeq(filtered,
                               LAMBDA tag : tag.scenes # <<>> \/ tag.labels # <<>>)

\* one tag lost its only scene and was dropped, another kept its other scene
C25_Witness ==
    /\ last.op = "remove_swf_elements"
    /\ last.elements.scenes = {"s1"}
    /\ SceneTags(prev.tags) =
           <<DefineSceneAndFrameLabelData(<<Scene("s1")>>, <<>>),
             DefineSceneAndFrameLabelData(<<Scene("s1"), Scene("s2")>>, <<>>)>>
    /\ SceneTags(movie.tags) = <<DefineSceneAndFrameLabelData(<<Scene("s2")>>, <<>>)>>

\* the position of the last style-defining record among the first k, 0 if
\* the initial styles of the shape are still in effect
StylesAt(records, k) ==
    FirstIn({i \in 1..k : /\ records[i].type = "StyleChange"
                          /\ records[i].new_styles # Absent
                          /\ \A j \in (i + 1)..k :
                                 records[j].type = "Edge" \/ records[j].new_styles = Absent})

\* the style table in effect at record k
StylesInEffect(shape, k) ==
    IF StylesAt(shape.records, k) = 0 THEN shape.initial_styles
    ELSE shape.records[StylesAt(shape.records, k)].new_styles[1]

\* a path with a fill or a stroke
Styled(path) == path.fill # Absent \/ path.stroke # Absent

\* C26: every path with a fill or a stroke gets a style-defining StyleChange
\* ahead of its move-to and edges, and the fill and line style indexes of
\* every StyleChange point into the style table in effect: 1..number of
\* fill styles, 1..number of line styles
C26_StyleIndexesInRange ==
    (last.op = "parse_shape_source" /\ last.ok /\ last.shapes # <<>>) =>
        LET shape == last.shapes[1]
            records == shape.records
            paths == Paths(last.source)
            defining == {k \in 1..Len(records) : /\ records[k].type = "StyleChange"
                                                 /\ records[k].new_styles # Absent}
        IN  /\ Cardinality(defining) =
                   Cardinality({i \in 1..Len(paths) : Styled(paths[i])})
            /\ \A k \in defining :
                   /\ k < Len(records)
                   /\ records[k + 1].type = "StyleChange"
                   /\ records[k + 1].move_to # Absent
            /\ \A k \in 1..Len(records) : records[k].type = "StyleChange" =>
                   /\ records[k].left_fill \in 0..Len(StylesInEffect(shape, k).fill)
                   /\ records[k].line_style \in 0..Len(StylesInEffect(shape, k).line)
                   /\ k \in defining =>
                          /\ Len(records[k].new_styles[1].fill) > 0 => records[k].left_fill > 0
                          /\ Len(records[k].new_styles[1].line) > 0 => records[k].line_style > 0

\* C27: the point a segment commits is the point of the path data (for a
\* relative command the untransformed pen plus the offset) under the path's
\* own transform and then the transform of the group around the path, and
\* under no group transform if the group has ended or there is none
C27_TransformComposition ==
    (/\ last.op = "parse_shape_source" /\ last.ok
     /\ Len(Paths(last.source)) = 1
     /\ Commands(Paths(last.source)[1]) \subseteq
            (StraightCommands \cup CubicCommands) \ {"ClosePath"}) =>
        LET d == Paths(last.source)[1].d[1]
            records == last.shapes[1].records
            styles == Len(records) - RecordsOf(d, Len(d))
        IN  \A k \in 1..Len(d) :
                PenAfter(records, styles + RecordsOf(d, k))
                    = Device(UserState(d, k).pos, last.source)

\* C28: for every document, one whose highest scanned character ID is 65535
\* included, the allocator returns an ID above every scanned character ID of
\* the top-level list: max + 1 neither aborts the process nor wraps to 0
C28_AllocatorAboveEveryId ==
    /\ pc # "panicked"
    /\ \A i \in DOMAIN allocs :
           allocs[i].auto => allocs[i].id > MaxIdOf(allocs[i].tags, ScannedKinds, 1)

-----------------------------------------------------------------------------
(* apply_shape_replacements on its own: documents with shapes at the top   *)
(* level and inside a sprite, sources that name present and missing IDs.   *)

\* a new shape that brings its own fill
ShapeBlue ==
    Shape(<<Solid(Blue)>>, <<>>,
          <<StyleChange(Some(Vector2D(-40, 0)), 1, 0, 0),
            Edge(Vector2D(0, 60), Absent)>>)

ReplaceTags ==
    {DefineShape(3, Rect0, Shape0), DefineShape(4, Rect0, ShapeOne),
     DefineSprite(5, <<DefineShape(6, Rect0, Shape0)>>), PlaceObject(3)}

\* config.file: a present target; two targets of one source; a target that
\* is only inside a sprite, between two others; a missing target in the
\* second of three sources; one target twice; a source that does not
\* parse; a source with no shape; no source
ReplaceSources ==
    {<<ShapeSource(Parsed(<<ShapeOne>>), <<3>>)>>,
     <<ShapeSource(Parsed(<<ShapeBlue, ShapeOne>>), <<3, 4>>)>>,
     <<ShapeSource(Parsed(<<ShapeOne>>), <<4, 6, 3>>)>>,
     <<ShapeSource(Parsed(<<ShapeBlue>>), <<3>>),
       ShapeSource(Parsed(<<ShapeOne>>), <<7>>),
       ShapeSource(Parsed(<<ShapeBlue>>), <<4>>)>>,
     <<ShapeSource(Parsed(<<ShapeBlue>>), <<3>>),
       ShapeSource(Parsed(<<ShapeOne>>), <<3>>)>>,
     <<ShapeSource(ParseError, <<3>>)>>,
     <<ShapeSource(Parsed(<<>>), <<3>>)>>,
     <<>>}

InitReplace ==
    /\ movie \in {Movie(10, Rect0, ts) : ts \in SeqsUpTo(ReplaceTags, MaxTags)}
    /\ prev = movie
    /\ last = NoOp
    /\ pc = "file"
    /\ trace = <<>>
    /\ config = [profile |-> "release"]
    /\ allocs = <<>>
    /\ output = Absent
    /\ dirs = {}

\* apply_shape_replacements(&mut movie, shape_sources, config_path)
ApplyShapeReplacements ==
    /\ pc = "file"
    /\ \E sources \in ReplaceSources :
         LET r == apply_shape_replacements(movie, sources)
         IN  /\ movie' = r.movie
             /\ last' = [op |-> "apply_shape_replacements", ok |-> r.ok,
                         sources |-> sources]
             /\ pc' = IF ~r.ok THEN "failed"
                      ELSE IF Len(trace) + 1 < MaxCalls THEN pc ELSE "done"
    /\ prev' = movie
    /\ trace' = Append(trace, pc)
    /\ UNCHANGED <<config, allocs, output, dirs>>

NextReplace == ApplyShapeReplacements

SpecReplace == InitReplace /\ [][NextReplace]_vars

RECURSIVE TargetsOf(_, _)
\* the targets of the sources in the order of the call, each with the new
\* shapes of its source
TargetsOf(sources, i) ==
    IF i > Len(sources) THEN <<>>
    ELSE [k \in 1..Len(sources[i].shapes) |->
             [shape_id |-> sources[i].shapes[k],
              new_shapes |-> sources[i].parsed.shapes]]
         \o TargetsOf(sources, i + 1)

\* every source parses and yields a shape
Usable(sources) ==
    \A i \in 1..Len(sources) :
        sources[i].parsed.ok /\ sources[i].parsed.shapes # <<>>

\* the position of the top-level DefineShape tag a target names, 0 if none
PositionOf(tags, target) ==
    FirstIn({i \in OfKind(tags, "DefineShape") : tags[i].id = target.shape_id})

RECURSIVE ReplacedShape(_, _, _, _, _, _)
\* the shape at position i after the targets k..done have replaced theirs
ReplacedShape(shape, tags, i, targets, k, done) ==
    IF k > done THEN shape
    ELSE ReplacedShape(IF PositionOf(tags, targets[k]) = i
                       THEN ModifiedShape(targets[k].new_shapes[1], shape)
                       ELSE shape,
                       tags, i, targets, k + 1, done)

\* the first target that no top-level DefineShape tag has, 0 if none
FirstMissing(tags, targets) ==
    FirstIn({k \in 1..Len(targets) : PositionOf(tags, targets[k]) = 0})

\* C29: a target ID with no top-level DefineShape tag makes
\* apply_shape_replacements return an error; no target after it is
\* processed, the shapes replaced before it stay replaced; a replaced tag
\* keeps its ID and position and its bounds are calculate_shape_bounds of
\* its new shape; every other tag is as it was
C29_MissingTargetStops ==
    (last.op = "apply_shape_replacements" /\ Usable(last.sources)) =>
        LET targets == TargetsOf(last.sources, 1)
            missing == FirstMissing(prev.tags, targets)
            done == IF missing = 0 THEN Len(targets) ELSE missing - 1
        IN  /\ last.ok <=> missing = 0
            /\ Len(movie.tags) = Len(prev.tags)
            /\ movie.header = prev.header
            /\ \A i \in 1..Len(prev.tags) :
                 IF \E k \in 1..done : PositionOf(prev.tags, targets[k]) = i
                 THEN /\ movie.tags[i] =
                           [prev.tags[i] EXCEPT
                               !.shape = ReplacedShape(prev.tags[i].shape, prev.tags, i,
                                                       targets, 1, done),
                               !.bounds = movie.tags[i].bounds]
                      /\ movie.tags[i].bounds = calculate_shape_bounds(movie.tags[i].shape)
                 ELSE movie.tags[i] = prev.tags[i]

\* a call that replaced a shape, then met a missing target, and left a
\* later target that the document has as it was
C29_Witness ==
    /\ last.op = "apply_shape_replacements" /\ Usable(last.sources) /\ ~last.ok
    /\ movie.tags # prev.tags
    /\ LET targets == TargetsOf(last.sources, 1)
           missing == FirstMissing(prev.tags, targets)
       IN  \E k \in (missing + 1)..Len(targets) :
               /\ PositionOf(prev.tags, targets[k]) # 0
               /\ \A j \in 1..(missing - 1) :
                      PositionOf(prev.tags, targets[j]) # PositionOf(prev.tags, targets[k])

-----------------------------------------------------------------------------
(* What remove_swf_elements may delete.                                    *)

\* the request asks for this tag to go
Asked(tag, e) ==
    CASE tag.kind = "DefineShape" -> tag.id \in e.shapes
      [] tag.kind = "DefineSprite" -> tag.id \in e.sprites
      [] tag.kind \in {"DefineText", "DefineDynamicText"} -> tag.id \in e.texts
      [] tag.kind = "DefineButton" -> tag.id \in e.buttons
      [] tag.kind = "DefineBitmap" -> tag.id \in e.bitmaps
      [] tag.kind = "PlaceObject" ->
           tag.character_id # None /\ tag.character_id \in RemovedIds(e)
      [] tag.kind = "FrameLabel" -> tag.name \in e.frames
      [] tag.kind = "DefineSceneAndFrameLabelData" ->
           /\ e.scenes # {}
           /\ \A i \in 1..Len(tag.scenes) : tag.scenes[i].name \in e.scenes
           /\ tag.labels = <<>>
      [] OTHER -> FALSE

\* f places the tags of after, in their order, among the tags of before
Placing(f, after, before) ==
    /\ f \in [1..Len(after) -> 1..Len(before)]
    /\ \A a, b \in 1..Len(after) : a < b => f[a] < f[b]

\* the tags of before that f leaves out were asked to go
OnlyAsked(f, after, before, e) ==
    \A i \in 1..Len(before) :
        (\A j \in 1..Len(after) : f[j] # i) => Asked(before[i], e)

\* after is the nested list before, less tags that were asked to go
NestedRetained(after, before, e) ==
    \E f \in [1..Len(after) -> 1..Len(before)] :
        /\ Placing(f, after, before)
        /\ OnlyAsked(f, after, before, e)
        /\ \A j \in 1..Len(after) : after[j] = before[f[j]]

\* the retained tag is the tag it was, but for the scenes filtered out of
\* it and the tags deleted inside it
Unchanged(after, before, e) ==
    CASE before.kind = "DefineSceneAndFrameLabelData" ->
           \/ after = before
           \/ after = [before EXCEPT !.scenes =
                          SelectSeq(@, LAMBDA scene : scene.name \notin e.scenes)]
      [] before.kind = "DefineSprite" ->
           /\ after.kind = "DefineSprite"
           /\ after = [before EXCEPT !.tags = after.tags]
           /\ NestedRetained(after.tags, before.tags, e)
      [] OTHER -> after = before

\* C30: remove_swf_elements deletes a top-level or sprite-nested tag only
\* if the request asks for it (a definition of a removed kind and ID, a
\* PlaceObject that carries a removed character ID, a FrameLabel of a
\* removed name, an emptied scene tag); a PlaceObject with no character ID
\* stays; retained tags are unchanged but for scene filtering and keep
\* their order
C30_RemovesOnlyAsked ==
    last.op = "remove_swf_elements" =>
        /\ movie.header = prev.header
        /\ \E f \in [1..Len(movie.tags) -> 1..Len(prev.tags)] :
             /\ Placing(f, movie.tags, prev.tags)
             /\ OnlyAsked(f, movie.tags, prev.tags, last.elements)
             /\ \A j \in 1..Len(movie.tags) :
                    Unchanged(movie.tags[j], prev.tags[f[j]], last.elements)

====
